---- MODULE Spec2Model ----
(***************************************************************************)
(* OpenMemory API (openmemory/api): the relational store behind the        *)
(* memories router.  The model keeps the User, App, Memory and             *)
(* MemoryStatusHistory tables, the SQLAlchemy session of the create        *)
(* request while it reconciles the extraction engine's events, and the     *)
(* response of the last finished request.                                  *)
(*                                                                         *)
(* Every handler of the router is an `async def` without an await, so the  *)
(* event loop runs one request to completion before the next starts; the   *)
(* lifecycle endpoints are therefore single actions.  create_memory is     *)
(* split at its event loop (one step per element of                        *)
(* mem0_response['results']); no other request runs between its steps.     *)
(*                                                                         *)
(* Beside the router the module holds the AccessControl table with         *)
(* get_accessible_memory_ids (SpecAccess), and the cached engine client of *)
(* utils/memory.py with the configuration API of routers/config.py: one    *)
(* step per statement that reads or writes the globals _memory_client and  *)
(* _config_hash, run by callers that never overlap (SpecSequential) or by  *)
(* two threads that do (SpecRace).                                         *)
(***************************************************************************)
EXTENDS Integers, Sequences, FiniteSets, TLC

\* ------------------------------------------------------------------ bounds
MaxHist == 3        \* rows of memory_status_history after which no request is sent
MaxEvents == 2      \* results in one engine response
MaxBatch == 2       \* ids in one delete / archive / pause request
MaxCats == 1        \* rows of memory_categories the model lets exist

\* ------------------------------------------------------------- value sets
NULL == "NULL"
NoTime == 0                         \* a NULL DateTime column
UserIds == {"u1", "u2", "u3"}       \* external user ids a caller may send
AppNames == {"a1", "a2"}
MemIds == {"m1", "m2"}
Texts == {"t1", "t2"}
CatIds == {"c1"}
Metadatas == {"md1"}
DefaultMetadata == "{}"             \* Column("metadata", JSON, default=dict)

\* class MemoryState(enum.Enum)
MemoryState == {"active", "paused", "archived", "deleted"}

MEMORY_EVENT_ADD == "ADD"
MEMORY_EVENT_UPDATE == "UPDATE"
MEMORY_EVENT_DELETE == "DELETE"
MEMORY_EVENT_NONE == "NONE"
UNKNOWN_EVENT == "OTHER"            \* any event type EVENT_HANDLERS lacks
EventTypes == {MEMORY_EVENT_ADD, MEMORY_EVENT_UPDATE, MEMORY_EVENT_DELETE,
               MEMORY_EVENT_NONE, UNKNOWN_EVENT}

\* ------------------------------------------------------------------ rows
\* An App row is identified by (owner_id, name): UniqueConstraint idx_app_owner_name.
AppId(owner, name) == [owner |-> owner, name |-> name]
NoApp == AppId(NULL, NULL)
AppIds == {AppId(u, a) : u \in UserIds, a \in AppNames}

\* class Memory(Base)
Memory(user_id, app_id, content, metadata_, state) ==
    [user_id |-> user_id, app_id |-> app_id, content |-> content,
     metadata_ |-> metadata_, state |-> state,
     archived_at |-> NoTime, deleted_at |-> NoTime]
NoRow == Memory(NULL, NoApp, NULL, NULL, NULL)

\* class MemoryStatusHistory(Base)
MemoryStatusHistory(memory_id, changed_by, old_state, new_state) ==
    [memory_id |-> memory_id, changed_by |-> changed_by,
     old_state |-> old_state, new_state |-> new_state]

VARIABLES
    users,        \* external user_id of every User row (User.id is named by it)
    apps,         \* AppId -> "absent" | "active" | "inactive"  (App.is_active)
    memories,     \* MemIds -> Memory row, NoRow when no row has that id
    history,      \* the committed MemoryStatusHistory rows, in commit order
    memory_categories,  \* the rows <<memory_id, category_id>> of the association table
    pc,           \* "idle", or "events" while create_memory runs its event loop
    request,      \* the CreateMemoryRequest being served
    session,      \* its SQLAlchemy session: dirty rows, pending rows, pending history
    lists,        \* created_memories, updated_memories, deleted_memories, skipped_memories
    event,        \* the result the loop handled last, with what the handler saw and did
    last,         \* the response of the last finished request
    deleted_ok,   \* the ids DELETE /memories/ has answered 200 for
    access_controls,  \* the AccessControl rows, in the order a query returns them
    accessible,   \* the app and the result of the last get_accessible_memory_ids call
    config_doc,   \* the value of the Config row with key "main" (NoDocument: no row)
    memory_client,  \* utils/memory.py: the global _memory_client
    config_hash,  \* utils/memory.py: the global _config_hash
    calls,        \* per thread: the get_memory_client call it runs
    returned,     \* the get_memory_client call that returned last, with its result
    writer,       \* the configuration request being served: where it is in reset_memory_client
    ncalls,       \* get_memory_client calls started so far
    sequential,   \* TRUE when the callers never overlap (one call or request at a time)
    env_pass,     \* _parse_environment_variables: os.environ, its argument, its results
    detection,    \* _detect_vector_store_config: os.environ and what the call gave
    config_api,   \* routers/config.py: the environment and the last request with its response
    dual_write,   \* neo4j_dual_write_patch.py: DUAL_WRITE_STATS, _stats_lock and the calls of query
    tencent,      \* vector_stores/tencent_vectordb.py: the database behind the connector and its calls
    categorization,  \* utils/categorization.py and the models.py triggers: one invocation, its attempts and result
    scoped_session   \* database.py get_db: the units of work and their sessions

reqvars == <<pc, request, session, lists, event>>
\* what every read and every request that ends before its writes leaves alone
\* the state of the components beside the memories router's tables
clientvars ==
    <<config_doc, memory_client, config_hash, calls, returned, writer, ncalls, sequential>>
\* the functions checked on their own: each has its inputs and results in one variable
libvars == <<env_pass, detection, config_api, dual_write, tencent>>
services == <<categorization, scoped_session>>
notlib == <<users, apps, memories, history, memory_categories, deleted_ok, reqvars, last, access_controls, accessible, clientvars, services>>
notservices == <<users, apps, memories, history, memory_categories, deleted_ok, reqvars, last, access_controls, accessible, clientvars, libvars>>
outside == <<access_controls, accessible, clientvars, libvars, services>>
tables == <<outside, users, apps, memories, history, memory_categories, deleted_ok>>
vars == <<users, apps, memories, history, memory_categories, pc, request, session, lists,
          event, last, deleted_ok, outside>>

\* datetime.now(UTC): a clock that advances with every audited change
Now(hist) == Len(hist) + 1


\* ------------------------------------------------------- request inputs
\* memory_ids: List[UUID] of a delete / archive / pause request
IdLists == UNION {[1..n -> MemIds] : n \in 0..MaxBatch}
NoIds == <<>>

\* class CreateMemoryRequest(BaseModel); the text reaches only the engine
CreateMemoryRequest(user_id, app, metadata) ==
    [user_id |-> user_id, app |-> app, metadata |-> metadata]
\* the requests the model sends: u1 to its active and to its paused app, u2 to
\* an app it does not have yet, u3 without a User row
CreateMemoryRequests ==
    {CreateMemoryRequest(u, a, md) : u \in {"u1"}, a \in AppNames, md \in Metadatas}
    \cup {CreateMemoryRequest(u, "a1", md) : u \in {"u2", "u3"}, md \in Metadatas}
NoRequest == [user_id |-> NULL, app |-> NULL, metadata |-> NULL]

\* one element of mem0_response['results']: {event, id, memory}.  Only the
\* ADD and UPDATE handlers read the text, and no handler of NONE or of an
\* unknown event reads the id, so the model varies them only there.
Result(event_type, id, memory) == [event |-> event_type, id |-> id, memory |-> memory]
Results ==
    {Result(e, m, t) : e \in {MEMORY_EVENT_ADD, MEMORY_EVENT_UPDATE}, m \in MemIds, t \in Texts}
    \cup {Result(MEMORY_EVENT_DELETE, m, "t1") : m \in MemIds}
    \cup {Result(e, "m1", "t1") : e \in {MEMORY_EVENT_NONE, UNKNOWN_EVENT}}
NoResult == [event |-> NULL, id |-> NULL, memory |-> NULL]

\* ------------------------------------------------------------ responses
Body(id, row) == [id |-> id, text |-> row.content, state |-> row.state]
NoBody == [id |-> NULL, text |-> NULL, state |-> NULL]

\* no PauseMemoriesRequest
NoPause == [memory_ids |-> <<>>, category_ids |-> <<>>, app_id |-> NoApp,
            all_for_app |-> FALSE, global_pause |-> FALSE, state |-> NULL, user_id |-> NULL]

\* what a finished request returned: the endpoint, the user the request named,
\* the app a create request named, the HTTP status ("error" is the 200 response
\* {"error": ...}, "null" the 200 response null), the memory in the body, the
\* ids of a page of results, whether memory_client.add was called, and the
\* request a pause request carried
Response(op, user, status, body, items, engine) ==
    [op |-> op, user |-> user, app |-> NoApp, status |-> status, body |-> body,
     items |-> items, engine |-> engine, pause |-> NoPause]

\* --------------------------------------------------- lifecycle transitions
Seq1(x) == <<x>>
Last(s) == s[Len(s)]
Range(s) == {s[i] : i \in 1..Len(s)}

\* get_memory_or_404: the row, or NoRow for the 404
get_memory_or_404(mems, memory_id) == mems[memory_id]

\* update_memory_state with the owner of the row, not the user of the request,
\* as changed_by
update_memory_state_by_owner(db, memory_id, new_state, user_id) ==
    LET memory == get_memory_or_404(db.memories, memory_id)
        stamped == [memory EXCEPT
                      !.state = new_state,
                      !.archived_at = IF new_state = "archived"
                                      THEN Now(db.history) ELSE @,
                      !.deleted_at = IF new_state = "deleted"
                                     THEN Now(db.history) ELSE @]
    IN  IF memory = NoRow
        THEN [db EXCEPT !.status = "404"]
        ELSE [memories |-> [db.memories EXCEPT ![memory_id] = stamped],
              history |-> Append(db.history,
                                 MemoryStatusHistory(memory_id, memory.user_id,
                                                     memory.state, new_state)),
              status |-> "200",
              touched |-> db.touched \cup {memory_id}]

\* update_memory_state on the tables db = [memories, history, status, touched];
\* a 404 leaves db as the earlier calls of the request committed it; touched
\* collects the ids whose row a commit flushed as an UPDATE
update_memory_state(db, memory_id, new_state, user_id) ==
    LET memory == get_memory_or_404(db.memories, memory_id)
        old_state == memory.state
        stamped == [memory EXCEPT
                      !.state = new_state,
                      !.archived_at = IF new_state = "archived"
                                      THEN Now(db.history) ELSE @,
                      !.deleted_at = IF new_state = "deleted"
                                     THEN Now(db.history) ELSE @]
    IN  IF memory = NoRow
        THEN [db EXCEPT !.status = "404"]
        ELSE [memories |-> [db.memories EXCEPT ![memory_id] = stamped],
              history |-> Append(db.history,
                                 MemoryStatusHistory(memory_id, user_id, old_state, new_state)),
              status |-> "200",
              touched |-> db.touched \cup {memory_id}]

\* for memory_id in ids: update_memory_state(db, memory_id, new_state, user_id)
RECURSIVE update_each(_, _, _, _)
update_each(db, ids, new_state, user_id) ==
    IF ids = <<>> \/ db.status # "200"
    THEN db
    ELSE update_each(update_memory_state(db, Head(ids), new_state, user_id),
                     Tail(ids), new_state, user_id)

Tables == [memories |-> memories, history |-> history, status |-> "200", touched |-> {}]

\* after_memory_update -> categorize_memory, run in a session of its own for
\* every Memory row a flush updates: the categories the LLM names are added to
\* memory_categories, or none is when the LLM or the trigger's transaction
\* fails.  (after_memory_insert finds no row: the INSERT is not committed yet
\* when the trigger's session queries for it.)
categorized(touched) ==
    {cats \in {memory_categories \cup x : x \in SUBSET (touched \X CatIds)} :
        Cardinality(cats) <= MaxCats}

\* the orders in which a query without ORDER BY may return the rows ids
Orders(ids) == {s \in [1..Cardinality(ids) -> ids] :
                  \A i, j \in 1..Cardinality(ids) : s[i] = s[j] => i = j}


\* ------------------------------------------------ create_memory: handlers
\* The session of one create request (SessionLocal: autoflush=False):
\*   memories  the identity map: the committed rows as the handlers changed them
\*   dirty     ids of the committed rows a handler assigned to
\*   new       the Memory objects passed to db.add, not yet flushed, so that no
\*             query of this request finds them
\*   history   the MemoryStatusHistory objects passed to db.add
NewSession(mems) == [memories |-> mems, dirty |-> {}, new |-> <<>>, history |-> <<>>]
NoSession == NewSession([m \in MemIds |-> NoRow])
\* created_memories, updated_memories, deleted_memories (by id) and the
\* reasons in skipped_memories; done is the part of mem0_response['results']
\* the loop has been through
NewLists == [created |-> <<>>, updated |-> <<>>, deleted |-> <<>>, skipped |-> <<>>,
             done |-> <<>>]
NoEvent == [result |-> NoResult, existing |-> NoRow, action |-> NULL]

\* db.query(Memory).filter(Memory.id == memory_id).first()
existing_memory(sess, memory_id) == sess.memories[memory_id]

\* _create_or_update_memory that stores a new row under an id of its own
create_or_update_memory_local_id(sess, memory_id, req, result, old_state) ==
    LET existing == existing_memory(sess, memory_id)
        updated == [existing EXCEPT !.state = "active", !.content = result.memory]
        local_id == CHOOSE m \in MemIds : m # memory_id
    IN  IF existing # NoRow
        THEN [session |-> [sess EXCEPT !.memories[memory_id] = updated,
                                       !.dirty = @ \cup {memory_id}],
              old_state |-> IF old_state = NULL THEN updated.state ELSE old_state]
        ELSE [session |-> [sess EXCEPT !.new = Append(@,
                              [id |-> local_id,
                               row |-> Memory(req.user_id, AppId(req.user_id, req.app),
                                              result.memory, req.metadata, "active")])],
              old_state |-> "active"]

\* _create_or_update_memory that leaves the state of an existing row as it is
\* and gives a new row the column default for its metadata
create_or_update_memory_content_only(sess, memory_id, req, result, old_state) ==
    LET existing == existing_memory(sess, memory_id)
        updated == [existing EXCEPT !.content = result.memory]
    IN  IF existing # NoRow
        THEN [session |-> [sess EXCEPT !.memories[memory_id] = updated,
                                       !.dirty = @ \cup {memory_id}],
              old_state |-> IF old_state = NULL THEN updated.state ELSE old_state]
        ELSE [session |-> [sess EXCEPT !.new = Append(@,
                              [id |-> memory_id,
                               row |-> Memory(req.user_id, AppId(req.user_id, req.app),
                                              result.memory, DefaultMetadata, "active")])],
              old_state |-> "active"]

\* _create_or_update_memory: the session after it, and the old_state it returns
\* (for an existing row, existing_memory.state as it reads after the assignment)
create_or_update_memory(sess, memory_id, req, result, old_state) ==
    LET existing == existing_memory(sess, memory_id)
        updated == [existing EXCEPT !.state = "active", !.content = result.memory]
    IN  IF existing # NoRow
        THEN [session |-> [sess EXCEPT !.memories[memory_id] = updated,
                                       !.dirty = @ \cup {memory_id}],
              old_state |-> IF old_state = NULL THEN updated.state ELSE old_state]
        ELSE [session |-> [sess EXCEPT !.new = Append(@,
                              [id |-> memory_id,
                               row |-> Memory(req.user_id, AppId(req.user_id, req.app),
                                              result.memory, req.metadata, "active")])],
              old_state |-> "active"]

\* _handle_add_event
handle_add_event(sess, memory_id, req, result) ==
    LET r == create_or_update_memory(sess, memory_id, req, result, NULL)
    IN  [session |-> [r.session EXCEPT !.history = Append(@,
                        MemoryStatusHistory(memory_id, req.user_id, r.old_state, "active"))],
         action |-> "created"]

\* _handle_update_event
handle_update_event(sess, memory_id, req, result) ==
    LET r == create_or_update_memory(sess, memory_id, req, result, "active")
    IN  [session |-> [r.session EXCEPT !.history = Append(@,
                        MemoryStatusHistory(memory_id, req.user_id, r.old_state, "active"))],
         action |-> IF existing_memory(sess, memory_id) # NoRow THEN "updated" ELSE "created"]

\* _handle_delete_event that records a history row for a memory it did not find
handle_delete_event_audits_miss(sess, memory_id, req, result, now) ==
    IF existing_memory(sess, memory_id) = NoRow
    THEN [session |-> [sess EXCEPT !.history = Append(@,
                          MemoryStatusHistory(memory_id, req.user_id, "active", "deleted"))],
          action |-> "skipped"]
    ELSE [session |-> [sess EXCEPT
                         !.memories[memory_id].state = "deleted",
                         !.memories[memory_id].deleted_at = now,
                         !.dirty = @ \cup {memory_id},
                         !.history = Append(@,
                            MemoryStatusHistory(memory_id, req.user_id, "active", "deleted"))],
          action |-> "deleted"]

\* _handle_delete_event; now is datetime.now(UTC)
handle_delete_event(sess, memory_id, req, result, now) ==
    IF existing_memory(sess, memory_id) = NoRow
    THEN [session |-> sess, action |-> "skipped"]
    ELSE [session |-> [sess EXCEPT
                         !.memories[memory_id].state = "deleted",
                         !.memories[memory_id].deleted_at = now,
                         !.dirty = @ \cup {memory_id},
                         !.history = Append(@,
                            MemoryStatusHistory(memory_id, req.user_id, "active", "deleted"))],
          action |-> "deleted"]

\* _handle_none_event
handle_none_event(sess) == [session |-> sess, action |-> "skipped"]

\* EVENT_HANDLERS.get(event_type) and the call of the handler; "unknown" when
\* there is no handler
handle_event(sess, req, result, now) ==
    CASE result.event = MEMORY_EVENT_ADD -> handle_add_event(sess, result.id, req, result)
      [] result.event = MEMORY_EVENT_UPDATE -> handle_update_event(sess, result.id, req, result)
      [] result.event = MEMORY_EVENT_DELETE -> handle_delete_event(sess, result.id, req, result, now)
      [] result.event = MEMORY_EVENT_NONE -> handle_none_event(sess)
      [] OTHER -> [session |-> sess, action |-> "unknown"]

\* action_memory_map.get(action) and the append to the list it names, or to
\* skipped_memories
record_action(ls, result, action) ==
    CASE action = "created" -> [ls EXCEPT !.created = Append(@, result.id)]
      [] action = "updated" -> [ls EXCEPT !.updated = Append(@, result.id)]
      [] action = "deleted" -> [ls EXCEPT !.deleted = Append(@, result.id)]
      [] action = "unknown" -> [ls EXCEPT !.skipped = Append(@, "UNKNOWN_EVENT_TYPE")]
      [] OTHER -> [ls EXCEPT !.skipped = Append(@,
                      IF result.event = MEMORY_EVENT_NONE THEN "NOOP" ELSE "UNKNOWN_EVENT_TYPE")]

\* total_changes
total_changes(ls) == Len(ls.created) + Len(ls.updated) + Len(ls.deleted)

\* db.commit() of the create request fails when two pending Memory objects carry
\* one primary key
commit_fails(sess) ==
    \E i, j \in 1..Len(sess.new) : i # j /\ sess.new[i].id = sess.new[j].id

\* a commit that flushes the rows the session changed and not the rows it added
committed_memories_dirty_only(sess) == sess.memories

\* the memories table after the session is flushed and committed
committed_memories(sess) ==
    [m \in MemIds |->
        IF \E i \in 1..Len(sess.new) : sess.new[i].id = m
        THEN sess.new[CHOOSE i \in 1..Len(sess.new) : sess.new[i].id = m].row
        ELSE sess.memories[m]]

\* "Return the first memory": priority created > updated > deleted
first_memory(ls) ==
    IF ls.created # <<>> THEN Head(ls.created)
    ELSE IF ls.updated # <<>> THEN Head(ls.updated)
    ELSE Head(ls.deleted)


\* ------------------------------------------------------------------ Init
\* The tables after bootstrap (create_default_user, create_default_app: user u1
\* with the active app a1) and after the parts of the service outside this
\* router wrote a second user u2 and paused u1's app a2.  No user row is u3's.
NoResponse == Response("none", NULL, "none", NoBody, {}, FALSE)

RouterInit ==
    /\ users = {"u1", "u2"}
    /\ apps = [a \in AppIds |->
                 IF a = AppId("u1", "a1") THEN "active"
                 ELSE IF a = AppId("u1", "a2") THEN "inactive"
                 ELSE "absent"]
    /\ memories = [m \in MemIds |-> NoRow]
    /\ history = <<>>
    /\ memory_categories = {}
    /\ pc = "idle"
    /\ request = NoRequest
    /\ session = NoSession
    /\ lists = NewLists
    /\ event = NoEvent
    /\ last = NoResponse
    /\ deleted_ok = {}

\* ------------------------------------------------- configuration values
\* One section of a configuration: {"provider": .., "config": {"model" or "url": ..,
\* "api_key" or "password": ..}}.  NoSection stands for an absent or null section.
Section(provider, name, secret) == [provider |-> provider, name |-> name, secret |-> secret]
NoSection == Section(NULL, NULL, NULL)

\* os.environ: OPENAI_API_KEY is set, NEO4J_PASSWORD and the NEO4J_* urls are not
OPENAI_API_KEY == "sk-env"
environ(env_var) == IF env_var = "env:OPENAI_API_KEY" THEN OPENAI_API_KEY ELSE NULL

\* get_default_configuration()["mem0"] and _get_llm_config / _get_embedder_config
DefaultLLM == Section("openai", "gpt-4o-mini", "env:OPENAI_API_KEY")
DefaultEmbedder == Section("openai", "text-embedding-3-small", "env:OPENAI_API_KEY")
\* _detect_vector_store_config with no vector store in the environment
DefaultVectorStore == Section("qdrant", "openmemory", NULL)
\* what a client of the configuration API may write
OtherLLM == Section("openai", "gpt-4o", "sk-env")
OtherGraphStore == Section("neo4j", "bolt://neo4j:7687", "env:NEO4J_PASSWORD")
CustomInstructions == "ci-doc"

\* class ConfigSchema: the persisted document
Document(custom_instructions, llm, embedder, vector_store, graph_store) ==
    [row |-> TRUE, custom_instructions |-> custom_instructions, llm |-> llm,
     embedder |-> embedder, vector_store |-> vector_store, graph_store |-> graph_store]
\* no Config row with key "main"
NoDocument == [row |-> FALSE]

\* the dictionary handed to Memory.from_config; an absent key is NoSection / NULL.
\* NoConfigDict is no dictionary: what None was built from, what None is the hash of
ConfigDict(vector_store, llm, embedder, graph_store, prompt) ==
    [vector_store |-> vector_store, llm |-> llm, embedder |-> embedder,
     graph_store |-> graph_store, version |-> "v1.1",
     custom_fact_extraction_prompt |-> prompt]
NoConfigDict == [version |-> NULL]

\* an engine client: the configuration Memory.from_config built it from, and
\* which call built it (two builds are two instances)
Client(id, config) == [id |-> id, config |-> config]
NoClient == Client(0, NoConfigDict)             \* _memory_client = None

\* hashlib.md5(json.dumps(config_dict, sort_keys=True)): a digest of the
\* canonical text of the dictionary; no two dictionaries of the model collide
_get_config_hash(config_dict) == [md5 |-> config_dict]
NoHash == [md5 |-> NoConfigDict]                \* _config_hash = None

Threads == {"t1", "t2"}
\* a thread's call of get_memory_client: its position, its argument and locals,
\* the globals as they were when it started, whether it is the first call after
\* a configuration write or after a call that failed, and what it returned
Call(at, n, custom_instructions, config) ==
    [pc |-> at, n |-> n, custom_instructions |-> custom_instructions, config |-> config,
     current_config_hash |-> _get_config_hash(config),
     before |-> NoClient, before_hash |-> NoHash, loaded |-> NoDocument,
     after_write |-> FALSE, after_failure |-> FALSE,
     built |-> FALSE, failed |-> FALSE, result |-> NoClient]
\* no call: the thread is idle, or no call has returned yet
NoCall ==
    [pc |-> "idle", n |-> 0, built |-> FALSE, failed |-> FALSE, after_write |-> FALSE,
     after_failure |-> FALSE, result |-> NoClient]

\* the configuration request in progress: where it is in reset_memory_client, and
\* whether a write has finished that no get_memory_client call has followed yet
NoWrite == [pc |-> "idle", fresh |-> FALSE]

ClientInit ==
    /\ config_doc = NoDocument
    /\ memory_client = NoClient
    /\ config_hash = NoHash
    /\ calls = [t \in Threads |-> NoCall]
    /\ returned = NoCall
    /\ writer = NoWrite
    /\ ncalls = 0
    /\ sequential = TRUE

\* no AccessControl row is written by the code of the service: the table is empty
\* unless an operator fills it
NoAccess == [app_id |-> NoApp, unrestricted |-> FALSE, ids |-> {}]
AccessInit == access_controls = <<>> /\ accessible = NoAccess

\* _parse_environment_variables has not been applied to anything
NoPass == [passes |-> <<>>]
NoDetection == [detected |-> <<>>]
NoApiRequest == [request |-> "none"]
NoQueries == [started |-> 0]
NoConnector == [connected |-> FALSE]
NoCategorization == [invoked |-> FALSE]
NoScope == [opened |-> 0]
ServiceInit == categorization = NoCategorization /\ scoped_session = NoScope
LibInit == env_pass = NoPass /\ detection = NoDetection /\ config_api = NoApiRequest /\ dual_write = NoQueries /\ tencent = NoConnector /\ ServiceInit

Init == RouterInit /\ AccessInit /\ ClientInit /\ LibInit

\* No request is being served, and the model sends another: it sends none once
\* MaxHist history rows are committed.  A lifecycle request it sends writes all
\* its rows.
Idle == pc = "idle" /\ Len(history) < MaxHist

\* ------------------------------------------------- POST /api/v1/memories/
\* an is_active that every app passes
is_active_always(app_table, app_id) == TRUE

\* `app_obj.is_active` of the app the request resolved
is_active(app_table, app_id) == app_table[app_id] = "active"

\* create_memory up to the event loop.  client is what get_memory_client
\* gives ("ok", or "unavailable" when it returns None or raises); engine is what
\* memory_client.add does: "raises", "malformed" (not a dict with 'results'),
\* or "results".
CreateMemoryStart(req, client, engine) ==
    LET app_id == AppId(req.user_id, req.app)
        app_created == IF apps[app_id] = "absent"
                       THEN [apps EXCEPT ![app_id] = "active"] ELSE apps
        respond(status, called) ==
            last' = [Response("create", req.user_id, status, NoBody, {}, called)
                       EXCEPT !.app = app_id]
    IN  /\ Idle
        /\ IF req.user_id \notin users
           THEN /\ respond("404", FALSE)
                /\ UNCHANGED <<tables, reqvars>>
           ELSE /\ apps' = app_created
                /\ UNCHANGED <<outside, users, memories, history, memory_categories, deleted_ok>>
                /\ IF ~is_active(app_created, app_id)
                   THEN respond("403", FALSE) /\ UNCHANGED reqvars
                   ELSE IF client # "ok"
                   THEN respond("error", FALSE) /\ UNCHANGED reqvars
                   ELSE IF engine = "raises"
                   THEN respond("error", TRUE) /\ UNCHANGED reqvars
                   ELSE IF engine = "malformed"
                   THEN respond("null", TRUE) /\ UNCHANGED reqvars
                   ELSE /\ respond("pending", TRUE)
                        /\ pc' = "events"
                        /\ request' = req
                        /\ session' = NewSession(memories)
                        /\ lists' = NewLists
                        /\ event' = NoEvent

\* one pass of `for result in mem0_response['results']`
ProcessResult(result) ==
    LET now == Now(history \o session.history)
        existing == existing_memory(session, result.id)
        handled == handle_event(session, request, result, now)
    IN  /\ pc = "events"
        /\ Len(lists.done) < MaxEvents
        /\ Len(history) + Len(handled.session.history) <= MaxHist
        /\ session' = handled.session
        /\ lists' = [record_action(lists, result, handled.action)
                        EXCEPT !.done = Append(@, result)]
        /\ event' = [result |-> result, existing |-> existing,
                     action |-> handled.action]
        /\ UNCHANGED <<tables, pc, request, last>>

\* create_memory after the loop: "Commit all changes at once" and the response
CreateMemoryFinish ==
    LET rows == committed_memories(session)
        id == first_memory(lists)
    IN  /\ pc = "events"
        /\ pc' = "idle"
        /\ request' = NoRequest
        /\ session' = NoSession
        /\ lists' = NewLists
        /\ event' = NoEvent
        /\ UNCHANGED <<outside, users, apps, deleted_ok>>
        /\ IF total_changes(lists) = 0
           THEN /\ last' = [last EXCEPT !.status = "null"]
                /\ UNCHANGED <<memories, history, memory_categories>>
           ELSE IF commit_fails(session)
           THEN /\ last' = [last EXCEPT !.status = "error"]
                /\ UNCHANGED <<memories, history, memory_categories>>
           ELSE /\ memories' = rows
                /\ history' = history \o session.history
                /\ memory_categories' \in categorized(session.dirty)
                /\ last' = [last EXCEPT !.status = "200", !.body = Body(id, rows[id])]

\* --------------------------------------------- GET /api/v1/memories/{id}
\* the response of get_memory on the memories table mems
get_memory(mems, memory_id) ==
    LET memory == get_memory_or_404(mems, memory_id)
    IN  IF memory = NoRow
        THEN Response("get", NULL, "404", NoBody, {}, FALSE)
        ELSE Response("get", NULL, "200", Body(memory_id, memory), {}, FALSE)

GetMemory(memory_id) ==
    /\ Idle
    /\ last' = get_memory(memories, memory_id)
    /\ UNCHANGED <<tables, reqvars>>

\* ------------------------------------------------ DELETE /api/v1/memories/
DeleteMemories(memory_ids, user_id) ==
    LET db == update_each(Tables, memory_ids, "deleted", user_id)
    IN  /\ Idle
        /\ IF user_id \notin users
           THEN /\ last' = Response("delete", user_id, "404", NoBody, {}, FALSE)
                /\ UNCHANGED <<tables, reqvars>>
           ELSE /\ memories' = db.memories
                /\ history' = db.history
                /\ memory_categories' \in categorized(db.touched)
                /\ last' = Response("delete", user_id, db.status, NoBody, {}, FALSE)
                /\ deleted_ok' = IF db.status = "200"
                                 THEN deleted_ok \cup Range(memory_ids) ELSE deleted_ok
                /\ UNCHANGED <<outside, users, apps, reqvars>>

\* --------------------------------- POST /api/v1/memories/actions/archive
\* user_id is the UUID written to changed_by, a foreign key to users.id
ArchiveMemories(memory_ids, user_id) ==
    LET db == update_each(Tables, memory_ids, "archived", user_id)
    IN  /\ Idle
        /\ user_id \in users
        /\ memories' = db.memories
        /\ history' = db.history
        /\ memory_categories' \in categorized(db.touched)
        /\ last' = Response("archive", user_id, db.status, NoBody, {}, FALSE)
        /\ UNCHANGED <<outside, users, apps, deleted_ok, reqvars>>

\* ----------------------------------- POST /api/v1/memories/actions/pause
\* class PauseMemoriesRequest(BaseModel); an absent list is <<>>, an absent
\* app_id NoApp, an absent state NULL
PauseMemoriesRequest(memory_ids, category_ids, app_id, all_for_app, global_pause, state, user_id) ==
    [memory_ids |-> memory_ids, category_ids |-> category_ids, app_id |-> app_id,
     all_for_app |-> all_for_app, global_pause |-> global_pause, state |-> state,
     user_id |-> user_id]

\* a global selection that leaves out only the deleted rows
pause_global_not_deleted == {m \in MemIds : memories[m] # NoRow
                                            /\ memories[m].state # "deleted"}

\* the rows each mode of pause_memories selects
pause_global == {m \in MemIds : memories[m] # NoRow
                                /\ memories[m].state \notin {"deleted", "archived"}}
pause_by_app(app_id, user_id) ==
    {m \in MemIds : /\ memories[m] # NoRow
                    /\ memories[m].app_id = app_id
                    /\ memories[m].user_id = user_id
                    /\ memories[m].state \notin {"deleted", "archived"}}
pause_by_ids_for_app(memory_ids, user_id) ==
    {m \in MemIds : /\ memories[m] # NoRow
                    /\ memories[m].user_id = user_id
                    /\ memories[m].state # "deleted"
                    /\ m \in Range(memory_ids)}
pause_by_categories(category_ids) ==
    {m \in MemIds : /\ memories[m] # NoRow
                    /\ \E c \in Range(category_ids) : <<m, c>> \in memory_categories
                    /\ memories[m].state \notin {"deleted", "archived"}}

\* the mode pause_memories runs, and the ids it passes to update_memory_state
\* (as a set when they come from a query)
pause_mode(req) ==
    IF req.global_pause THEN "global"
    ELSE IF req.app_id # NoApp THEN "app"
    ELSE IF req.all_for_app /\ req.memory_ids # <<>> THEN "ids_for_app"
    ELSE IF req.memory_ids # <<>> THEN "ids"
    ELSE IF req.category_ids # <<>> THEN "categories"
    ELSE "invalid"

pause_selected(req) ==
    CASE pause_mode(req) = "global" -> pause_global
      [] pause_mode(req) = "app" -> pause_by_app(req.app_id, req.user_id)
      [] pause_mode(req) = "ids_for_app" -> pause_by_ids_for_app(req.memory_ids, req.user_id)
      [] pause_mode(req) = "categories" -> pause_by_categories(req.category_ids)
      [] OTHER -> {}

PauseMemories(req) ==
    LET state == IF req.state = NULL THEN "paused" ELSE req.state
        respond(status) ==
            last' = [Response("pause", req.user_id, status, NoBody, {}, FALSE)
                       EXCEPT !.pause = req]
    IN  /\ Idle
        /\ IF req.user_id \notin users
           THEN /\ respond("404")
                /\ UNCHANGED <<tables, reqvars>>
           ELSE IF pause_mode(req) = "invalid"
           THEN /\ respond("400")
                /\ UNCHANGED <<tables, reqvars>>
           ELSE \E ids \in IF pause_mode(req) = "ids" THEN {req.memory_ids}
                           ELSE Orders(pause_selected(req)) :
                  LET db == update_each(Tables, ids, state, req.user_id)
                  IN  /\ memories' = db.memories
                      /\ history' = db.history
                      /\ memory_categories' \in categorized(db.touched)
                      /\ respond(db.status)
                      /\ UNCHANGED <<outside, users, apps, deleted_ok, reqvars>>

\* --------------------------------------------- PUT /api/v1/memories/{id}
\* an update_memory that also re-activates the memory
UpdateMemory_reactivates(memory_id, memory_content, user_id) ==
    LET memory == get_memory_or_404(memories, memory_id)
        updated == [memory EXCEPT !.content = memory_content, !.state = "active"]
    IN  /\ Idle
        /\ IF user_id \notin users \/ memory = NoRow
           THEN /\ last' = Response("update", user_id, "404", NoBody, {}, FALSE)
                /\ UNCHANGED <<tables, reqvars>>
           ELSE /\ memories' = [memories EXCEPT ![memory_id] = updated]
                /\ memory_categories' \in categorized({memory_id})
                /\ last' = Response("update", user_id, "200", Body(memory_id, updated),
                                    {}, FALSE)
                /\ UNCHANGED <<outside, users, apps, history, deleted_ok, reqvars>>

UpdateMemory(memory_id, memory_content, user_id) ==
    LET memory == get_memory_or_404(memories, memory_id)
        updated == [memory EXCEPT !.content = memory_content]
    IN  /\ Idle
        /\ IF user_id \notin users \/ memory = NoRow
           THEN /\ last' = Response("update", user_id, "404", NoBody, {}, FALSE)
                /\ UNCHANGED <<tables, reqvars>>
           ELSE /\ memories' = [memories EXCEPT ![memory_id] = updated]
                /\ memory_categories' \in categorized({memory_id})
                /\ last' = Response("update", user_id, "200", Body(memory_id, updated),
                                    {}, FALSE)
                /\ UNCHANGED <<outside, users, apps, history, deleted_ok, reqvars>>

\* ------------------------------------------------- GET /api/v1/memories/
\* without app_id, search or date filters; check_memory_access_permissions
\* admits every row when no app id is given
check_memory_access_permissions(memory_id, app_id) == app_id = NoApp

\* MemoryResponse, as far as the model keeps it: id and content
MemoryResponse(mems, m) == [id |-> m, content |-> mems[m].content]

\* the response of list_memories on the memories table mems
list_memories(mems, user_id) ==
    IF user_id \notin users
    THEN Response("list", user_id, "404", NoBody, {}, FALSE)
    ELSE Response("list", user_id, "200", NoBody,
           {MemoryResponse(mems, m) :
              m \in {m \in MemIds : /\ mems[m] # NoRow
                                     /\ mems[m].user_id = user_id
                                     /\ mems[m].state # "deleted"
                                     /\ mems[m].state # "archived"
                                     /\ check_memory_access_permissions(m, NoApp)}},
           FALSE)

ListMemories(user_id) ==
    /\ Idle
    /\ last' = list_memories(memories, user_id)
    /\ UNCHANGED <<tables, reqvars>>

\* --------------------------------------------- POST /api/v1/memories/filter
\* the response of filter_memories on the memories table mems
filter_memories(mems, user_id, show_archived) ==
    IF user_id \notin users
    THEN Response("filter", user_id, "404", NoBody, {}, FALSE)
    ELSE Response("filter", user_id, "200", NoBody,
           {MemoryResponse(mems, m) :
              m \in {m \in MemIds : /\ mems[m] # NoRow
                                     /\ mems[m].user_id = user_id
                                     /\ mems[m].state # "deleted"
                                     /\ (show_archived \/ mems[m].state # "archived")}},
           FALSE)

FilterMemories(user_id, show_archived) ==
    /\ Idle
    /\ last' = filter_memories(memories, user_id, show_archived)
    /\ UNCHANGED <<tables, reqvars>>

\* ------------------------------------------------------------------ Next
\* the pause requests the model sends: each mode alone, and requests that
\* qualify for several modes
PausableApps == {AppId("u1", "a1")}
PauseShapes ==
    {PauseMemoriesRequest(<<>>, <<>>, NoApp, FALSE, g, NULL, NULL) : g \in BOOLEAN}
    \cup {PauseMemoriesRequest(<<>>, <<>>, a, FALSE, FALSE, NULL, NULL) : a \in PausableApps}
    \cup {PauseMemoriesRequest(ids, <<>>, NoApp, FALSE, FALSE, NULL, NULL) :
            ids \in IdLists \ {<<>>}}
    \cup {PauseMemoriesRequest(ids, <<>>, NoApp, TRUE, FALSE, NULL, NULL) :
            ids \in {<<"m1">>, <<"m1", "m2">>}}
    \cup {PauseMemoriesRequest(<<>>, <<c>>, NoApp, FALSE, FALSE, NULL, NULL) : c \in CatIds}
    \cup {PauseMemoriesRequest(<<"m1">>, <<c>>, a, TRUE, g, NULL, NULL) :
            c \in CatIds, a \in PausableApps, g \in BOOLEAN}
    \cup {PauseMemoriesRequest(<<"m1">>, <<c>>, NoApp, FALSE, FALSE, NULL, NULL) : c \in CatIds}
PauseRequests ==
    {[r EXCEPT !.state = st, !.user_id = u] :
        r \in PauseShapes, st \in {NULL, "active"}, u \in {"u1", "u2"}}
    \cup {PauseMemoriesRequest(<<"m1">>, <<>>, NoApp, FALSE, FALSE, NULL, "u3")}

\* the delete requests: every id list by a user with a row, one by u3
DeleteRequests ==
    {<<ids, u>> : ids \in IdLists, u \in {"u1", "u2"}} \cup {<<Seq1("m1"), "u3">>}

Next ==
    \/ \E req \in CreateMemoryRequests, client \in {"ok", "unavailable"},
          engine \in {"raises", "malformed", "results"} :
            CreateMemoryStart(req, client, engine)
    \/ \E result \in Results : ProcessResult(result)
    \/ CreateMemoryFinish
    \/ \E r \in DeleteRequests : DeleteMemories(r[1], r[2])
    \/ \E ids \in IdLists, u \in {"u1", "u2"} : ArchiveMemories(ids, u)
    \/ \E req \in PauseRequests : PauseMemories(req)
    \/ \E m \in MemIds, t \in Texts, u \in {"u1", "u3"} : UpdateMemory(m, t, u)
    \/ \E m \in MemIds : GetMemory(m)
    \/ \E u \in UserIds : ListMemories(u)
    \/ \E u \in UserIds, sa \in BOOLEAN : FilterMemories(u, sa)

Spec == Init /\ [][Next]_vars

\* ===================================================================
\* Properties of the memories API
\* ===================================================================

\* the rows a step adds to memory_status_history
added_history == {history'[i] : i \in (Len(history) + 1)..Len(history')}

C2_TimestampsOnlyOnEntry ==
    /\ [](\A m \in MemIds :
            /\ memories[m].state = "deleted" => memories[m].deleted_at # NoTime
            /\ memories[m].state = "archived" => memories[m].archived_at # NoTime)
    /\ [][\A m \in MemIds :
            /\ memories'[m].archived_at # memories[m].archived_at =>
                  memories'[m].state = "archived" /\ memories[m].state # "archived"
            /\ memories'[m].deleted_at # memories[m].deleted_at =>
                  memories'[m].state = "deleted" /\ memories[m].state # "deleted"]_vars

\* C3: once DELETE /memories/ has answered 200 for an id, GET /memories/{id}
\* answers 404 and no page of GET /memories/ or POST /memories/filter holds the
\* id, in every later state.
C3_DeletedIsGone ==
    \A m \in deleted_ok :
        /\ get_memory(memories, m).status = "404"
        /\ \A u \in UserIds :
              /\ \A item \in list_memories(memories, u).items : item.id # m
              /\ \A show_archived \in BOOLEAN :
                    \A item \in filter_memories(memories, u, show_archived).items :
                        item.id # m

\* C4: the archive endpoint moves only active memories, to archived; the pause
\* endpoint moves only active memories, to paused; the delete endpoint moves
\* memories only to deleted.
C4_OnlyLifecycleTransitions ==
    [][\A m \in MemIds :
          memories'[m].state # memories[m].state =>
              /\ last'.op = "archive" =>
                    memories[m].state = "active" /\ memories'[m].state = "archived"
              /\ last'.op = "pause" =>
                    memories[m].state = "active" /\ memories'[m].state = "paused"
              /\ last'.op = "delete" => memories'[m].state = "deleted"]_vars

\* a step that ends a create request by committing its session
Commits == pc = "events" /\ pc' = "idle" /\ last'.status = "200"

\* a pass of the event loop; event' holds the result it handled
Handles == pc = "events" /\ pc' = "events"

\* C5: when a create request commits, every ADD event (i, t) of the engine's
\* response that found no row of id i has created the row of id i, and GET
\* /memories/i on the tables as committed answers 200 with id i and text t.
C5_RowCarriesEngineId ==
    [][Commits =>
          \A k \in 1..Len(lists.done) :
              LET r == lists.done[k]
              IN  (r.event = MEMORY_EVENT_ADD /\ memories[r.id] = NoRow) =>
                      /\ memories'[r.id] # NoRow
                      /\ memories'[r.id].content = r.memory
                      /\ get_memory(memories', r.id) =
                            Response("get", NULL, "200",
                                     [id |-> r.id, text |-> r.memory, state |-> "active"],
                                     {}, FALSE)]_vars

\* C5 happens: a create request of u2 has committed the new memory m2 with
\* text t2, and GET /memories/m2 returns them
C5_Witness ==
    /\ last.op = "create" /\ last.status = "200" /\ last.user = "u2"
    /\ last.body = [id |-> "m2", text |-> "t2", state |-> "active"]
    /\ history = <<MemoryStatusHistory("m2", "u2", "active", "active")>>
    /\ get_memory(memories, "m2").body = last.body

\* C6: a create request naming a user without a User row creates the row and
\* is not rejected: after every create request its user has a row, and the
\* response is not the 404.
C6_UnknownUserIsCreated ==
    last.op = "create" => (last.user \in users /\ last.status # "404")

\* C7: a create request naming an app that is not active is answered 403
\* without a call of memory_client.add, and no Memory or MemoryStatusHistory
\* row changes.
C7_InactiveAppRejects ==
    [][(pc = "idle" /\ last'.op = "create" /\ apps[last'.app] = "inactive") =>
          /\ last'.status = "403"
          /\ ~last'.engine
          /\ pc' = "idle"
          /\ UNCHANGED <<memories, history>>]_vars

\* C7 happens: with a memory and its history row in the tables, u1's create
\* request for the paused app a2 was answered 403
C7_Witness ==
    /\ last.op = "create" /\ last.status = "403" /\ ~last.engine
    /\ last.app = AppId("u1", "a2") /\ apps[last.app] = "inactive"
    /\ \E m \in MemIds : memories[m] # NoRow
    /\ history # <<>>

\* what C8 says of the Memory row of the ADD or UPDATE event r of the request
\* req, for the row `before` the event found (NoRow: none) and the row `after`
UpsertDone(r, req, before, after) ==
    IF before # NoRow
    THEN after.state = "active" /\ after.content = r.memory
    ELSE after = Memory(req.user_id, AppId(req.user_id, req.app), r.memory,
                        req.metadata, "active")

C9_OldStateIsPriorState ==
    (pc = "events" /\ event.result.event \in {MEMORY_EVENT_ADD, MEMORY_EVENT_UPDATE}) =>
        LET h == Last(session.history)
        IN  /\ h.memory_id = event.result.id
            /\ h.new_state = "active"
            /\ h.old_state = IF event.existing = NoRow
                             THEN "active" ELSE event.existing.state

\* C10: a DELETE event that finds no row, a NONE event and an event of an
\* unknown type leave the session as it was (no Memory row changed, none and no
\* history row added), leave the tables alone, and add one entry to
\* skipped_memories and none to the other lists.
C10_SkippedEventsChangeNothing ==
    [][(/\ Handles
        /\ \/ event'.result.event \in {MEMORY_EVENT_NONE, UNKNOWN_EVENT}
           \/ event'.result.event = MEMORY_EVENT_DELETE /\ event'.existing = NoRow) =>
          /\ session' = session
          /\ UNCHANGED <<memories, history>>
          /\ Len(lists'.skipped) = Len(lists.skipped) + 1
          /\ lists'.created = lists.created
          /\ lists'.updated = lists.updated
          /\ lists'.deleted = lists.deleted]_vars

\* C10 happens: with m1 in the tables, a request has skipped a DELETE event for
\* m2, which has no row, after another skipped event, and its session is clean
C10_Witness ==
    /\ pc = "events"
    /\ event.result.event = MEMORY_EVENT_DELETE /\ event.result.id = "m2"
    /\ event.existing = NoRow /\ event.action = "skipped"
    /\ Len(lists.skipped) = 2
    /\ memories["m1"] # NoRow
    /\ session = NewSession(memories)

C12_EngineFailureIsAnErrorObject ==
    [][(/\ pc = "idle" /\ pc' = "idle"
        /\ last'.op = "create"
        /\ last'.status \notin {"404", "403"}) =>
          /\ last'.status = "error"
          /\ UNCHANGED <<memories, history>>]_vars

\* a step that serves a pause request of a user with a row; last'.pause is the
\* request
Pauses == pc = "idle" /\ last'.op = "pause" /\ last'.user \in users

\* the history rows a step adds for the memory m
added_for(m) == {i \in (Len(history) + 1)..Len(history') : history'[i].memory_id = m}

\* C13: a pause request with global_pause leaves every Memory that was neither
\* deleted nor archived, whoever owns it, in the requested state (paused when
\* the request names none) with exactly one new history row, and leaves every
\* deleted or archived Memory as it was, with no history row.
C13_GlobalPause ==
    [][(Pauses /\ last'.pause.global_pause) =>
          LET state == IF last'.pause.state = NULL THEN "paused" ELSE last'.pause.state
          IN  /\ last'.status = "200"
              /\ \A m \in MemIds :
                    IF memories[m] # NoRow /\ memories[m].state \notin {"deleted", "archived"}
                    THEN /\ memories'[m].state = state
                         /\ Cardinality(added_for(m)) = 1
                         /\ \A i \in added_for(m) :
                               history'[i] = MemoryStatusHistory(m, last'.user,
                                                                 memories[m].state, state)
                    ELSE /\ memories'[m] = memories[m]
                         /\ added_for(m) = {}]_vars

\* C13 happens: u2's global pause has paused the memory m1 of u1 and its own m2
C13_Witness ==
    /\ last.op = "pause" /\ last.status = "200" /\ last.user = "u2"
    /\ last.pause.global_pause /\ last.pause.state = NULL
    /\ memories["m1"].user_id = "u1" /\ memories["m1"].state = "paused"
    /\ memories["m2"].user_id = "u2" /\ memories["m2"].state = "paused"
    /\ Len(history) = 4
    /\ {history[3].memory_id, history[4].memory_id} = {"m1", "m2"}
    /\ history[3].changed_by = "u2" /\ history[4].changed_by = "u2"

\* C14: a pause request runs the first mode that applies, in the order global,
\* app id, (all_for_app and memory ids), memory ids, category ids: the memories
\* it writes history rows for are the ones that mode selects; in the third mode
\* they are memories of the request's ids that belong to the request's app and
\* are not deleted; a request no mode applies to is answered 400 and changes
\* no row.
C14_FirstApplicableMode ==
    [][Pauses =>
          LET req == last'.pause
              affected == {m \in MemIds : added_for(m) # {}}
          IN  IF req.global_pause
              THEN affected = pause_global
              ELSE IF req.app_id # NoApp
              THEN affected = pause_by_app(req.app_id, req.user_id)
              ELSE IF req.all_for_app /\ req.memory_ids # <<>>
              THEN /\ affected \subseteq Range(req.memory_ids)
                   /\ \A m \in affected : /\ memories[m].app_id = req.app_id
                                           /\ memories[m].state # "deleted"
              ELSE IF req.memory_ids # <<>>
              THEN /\ affected \subseteq Range(req.memory_ids)
                   /\ last'.status = "200" => affected = Range(req.memory_ids)
              ELSE IF req.category_ids # <<>>
              THEN affected = pause_by_categories(req.category_ids)
              ELSE last'.status = "400" /\ UNCHANGED <<memories, history>>]_vars

MaxRules == 3       \* rows of access_controls

\* class AccessControl(Base)
AccessControl(subject_type, subject_id, object_type, object_id, effect) ==
    [subject_type |-> subject_type, subject_id |-> subject_id,
     object_type |-> object_type, object_id |-> object_id, effect |-> effect]

AccessApps == {AppId("u1", "a1"), AppId("u1", "a2")}
\* the rows the table may hold: every memory rule of the two apps (object_id is
\* nullable), and two rows the query of get_accessible_memory_ids filters out
AccessControls ==
    {AccessControl("app", a, "memory", o, e) :
        a \in AccessApps, o \in MemIds \cup {NULL}, e \in {"allow", "deny"}}
    \cup {AccessControl("user", AppId("u1", "a1"), "memory", NULL, "deny"),
          AccessControl("app", AppId("u1", "a1"), "app", NULL, "deny")}

RECURSIVE SeqsUpTo(_, _)
SeqsUpTo(S, n) ==
    IF n = 0 THEN {<<>>}
    ELSE LET shorter == SeqsUpTo(S, n - 1)
         IN shorter \cup {Append(q, x) : q \in {p \in shorter : Len(p) = n - 1}, x \in S}

\* the two kinds of result: None (every memory is accessible) and a set of ids
None == [unrestricted |-> TRUE, ids |-> {}]
IdSet(ids) == [unrestricted |-> FALSE, ids |-> ids]

\* db.query(AccessControl).filter(subject_type == "app", subject_id == app_id,
\*                                object_type == "memory").all()
app_access(table, app_id) ==
    SelectSeq(table, LAMBDA rule : /\ rule.subject_type = "app"
                                   /\ rule.subject_id = app_id
                                   /\ rule.object_type = "memory")

\* `for rule in app_access:` with its two early returns, then the subtraction
RECURSIVE process_rules(_, _, _)
process_rules(rules, allowed_memory_ids, denied_memory_ids) ==
    IF rules = <<>>
    THEN IdSet(IF allowed_memory_ids # {}
               THEN allowed_memory_ids \ denied_memory_ids
               ELSE allowed_memory_ids)
    ELSE LET rule == Head(rules)
         IN IF rule.effect = "allow"
            THEN IF rule.object_id # NULL
                 THEN process_rules(Tail(rules),
                                    allowed_memory_ids \cup {rule.object_id},
                                    denied_memory_ids)
                 ELSE None
            ELSE IF rule.effect = "deny"
            THEN IF rule.object_id # NULL
                 THEN process_rules(Tail(rules), allowed_memory_ids,
                                    denied_memory_ids \cup {rule.object_id})
                 ELSE IdSet({})
            ELSE process_rules(Tail(rules), allowed_memory_ids, denied_memory_ids)

get_accessible_memory_ids(table, app_id) ==
    IF app_access(table, app_id) = <<>> THEN None
    ELSE process_rules(app_access(table, app_id), {}, {})

\* one call of get_accessible_memory_ids(db, app_id); a read
GetAccessibleMemoryIds(app_id) ==
    /\ accessible' = [app_id |-> app_id,
                      unrestricted |-> get_accessible_memory_ids(access_controls, app_id).unrestricted,
                      ids |-> get_accessible_memory_ids(access_controls, app_id).ids]
    /\ UNCHANGED <<access_controls, users, apps, memories, history, memory_categories,
                   deleted_ok, reqvars, last, clientvars, libvars, services>>

\* the table holds any rows, in any order: the query has no ORDER BY
InitAccess ==
    /\ RouterInit
    /\ access_controls \in SeqsUpTo(AccessControls, MaxRules)
    /\ accessible = NoAccess
    /\ ClientInit
    /\ LibInit

NextAccess == \E app_id \in AccessApps : GetAccessibleMemoryIds(app_id)

SpecAccess == InitAccess /\ [][NextAccess]_vars

\* the memory rules of the app the last call was about
rules_of_call ==
    {access_controls[i] : i \in {j \in DOMAIN access_controls :
        /\ access_controls[j].subject_type = "app"
        /\ access_controls[j].subject_id = accessible.app_id
        /\ access_controls[j].object_type = "memory"}}
allow_all == \E r \in rules_of_call : r.effect = "allow" /\ r.object_id = NULL
deny_all == \E r \in rules_of_call : r.effect = "deny" /\ r.object_id = NULL
specifically(effect) ==
    {r.object_id : r \in {q \in rules_of_call : q.effect = effect /\ q.object_id # NULL}}

\* C16: get_accessible_memory_ids(app) returns None when the app has no memory
\* rule or has an allow rule with null object_id, the empty set when it has a
\* deny rule with null object_id, and otherwise the specifically allowed ids
\* minus the specifically denied ids.
C16_Resolution ==
    accessible.app_id # NoApp =>
        /\ (rules_of_call = {} \/ allow_all) => accessible.unrestricted
        /\ deny_all => ~accessible.unrestricted /\ accessible.ids = {}
        /\ ~(rules_of_call = {} \/ allow_all \/ deny_all) =>
              /\ ~accessible.unrestricted
              /\ accessible.ids = specifically("allow") \ specifically("deny")

\* C16, the case that fails: the app has both an allow rule and a deny rule
\* with null object_id, and the call has answered
C16_Witness == accessible.app_id # NoApp /\ allow_all /\ deny_all

\* C16 apart from that case: with at most one kind of null-object rule the
\* three results are as stated
C16_ResolutionWithoutConflict ==
    (accessible.app_id # NoApp /\ ~(allow_all /\ deny_all)) => C16_Resolution

\* ===================================================================
\* The engine client cache (utils/memory.py) and the configuration API
\* (routers/config.py)
\* ===================================================================
MaxCalls == 3       \* get_memory_client calls started in one behaviour
MaxRaceCalls == 2   \* the same, where the calls overlap

\* what the client cache and the configuration API leave alone
notclient == <<users, apps, memories, history, memory_categories, deleted_ok, reqvars,
               last, access_controls, accessible, libvars, services>>
\* no call and no configuration request is in progress
AllIdle == writer.pc = "idle" /\ \A t \in Threads : calls[t].pc = "idle"

\* ---------------------------------------------------- utils/memory.py
EnvRefs == {"env:OPENAI_API_KEY", "env:NEO4J_PASSWORD"}     \* value.startswith("env:")

\* one string value: 'env:NAME' becomes os.environ[NAME] when that is set
parse_value(value) ==
    IF value \in EnvRefs /\ environ(value) # NULL THEN environ(value) ELSE value
parse_section(section) ==
    Section(parse_value(section.provider), parse_value(section.name),
            parse_value(section.secret))
_parse_environment_variables(config_dict) ==
    [vector_store |-> parse_section(config_dict.vector_store),
     llm |-> parse_section(config_dict.llm),
     embedder |-> parse_section(config_dict.embedder),
     graph_store |-> parse_section(config_dict.graph_store),
     version |-> parse_value(config_dict.version),
     custom_fact_extraction_prompt |-> parse_value(config_dict.custom_fact_extraction_prompt)]

\* vector_store, llm, embedder and version: the dictionary has no graph_store key
get_default_memory_config ==
    ConfigDict(DefaultVectorStore, DefaultLLM, DefaultEmbedder, NoSection, NULL)

\* get_memory_client up to `current_config_hash = ...`: the defaults, overridden
\* by the llm, embedder and vector_store sections of the document when it was
\* read (db_up) and holds them, the instructions, and the environment
effective_config(doc, custom_instructions, db_up) ==
    LET config == get_default_memory_config
        json_config == IF db_up THEN doc ELSE NoDocument
        overridden ==
            IF ~json_config.row THEN config
            ELSE [config EXCEPT
                    !.llm = IF json_config.llm # NoSection THEN json_config.llm ELSE @,
                    !.embedder = IF json_config.embedder # NoSection
                                 THEN json_config.embedder ELSE @,
                    !.vector_store = IF json_config.vector_store # NoSection
                                     THEN json_config.vector_store ELSE @]
        instructions_to_use ==
            IF custom_instructions # NULL THEN custom_instructions
            ELSE IF json_config.row THEN json_config.custom_instructions
            ELSE NULL
    IN _parse_environment_variables(
           [overridden EXCEPT !.custom_fact_extraction_prompt = instructions_to_use])

\* the call starts: lines 497-566, one read of the Config row
GetMemoryClient(t, custom_instructions, db_up) ==
    /\ calls[t].pc = "idle"
    /\ sequential => AllIdle
    /\ ncalls < MaxCalls
    /\ ncalls' = ncalls + 1
    /\ calls' = [calls EXCEPT ![t] =
          [Call("check_client", ncalls + 1, custom_instructions,
                effective_config(config_doc, custom_instructions, db_up))
             EXCEPT !.before = memory_client, !.before_hash = config_hash,
                    !.loaded = IF db_up THEN config_doc ELSE NoDocument,
                    !.after_write = writer.fresh, !.after_failure = returned.failed]]
    /\ writer' = [writer EXCEPT !.fresh = FALSE]
    /\ UNCHANGED <<notclient, sequential, returned, config_doc, memory_client, config_hash>>

\* `if _memory_client is None or ...`: the first operand
CheckClient(t) ==
    /\ calls[t].pc = "check_client"
    /\ calls' = [calls EXCEPT ![t].pc =
                    IF memory_client = NoClient THEN "build" ELSE "check_hash"]
    /\ UNCHANGED <<notclient, sequential, returned, config_doc, memory_client, config_hash, writer, ncalls>>

\* the cache check without its second operand: a cached client is always kept
CheckHash_keeps_client(t) ==
    /\ calls[t].pc = "check_hash"
    /\ calls' = [calls EXCEPT ![t].pc = "return"]
    /\ UNCHANGED <<notclient, sequential, returned, config_doc, memory_client,
                   config_hash, writer, ncalls>>

\* `... or _config_hash != current_config_hash`: the second operand
CheckHash(t) ==
    /\ calls[t].pc = "check_hash"
    /\ calls' = [calls EXCEPT ![t].pc =
                    IF config_hash # calls[t].current_config_hash THEN "build"
                    ELSE "return"]
    /\ UNCHANGED <<notclient, sequential, returned, config_doc, memory_client, config_hash, writer, ncalls>>

\* `_memory_client = Memory.from_config(config_dict=config)`, which may raise
FromConfig(t, raises) ==
    /\ calls[t].pc = "build"
    /\ IF raises
       THEN /\ calls' = [calls EXCEPT ![t].pc = "clear_client", ![t].failed = TRUE]
            /\ UNCHANGED memory_client
       ELSE /\ memory_client' = Client(calls[t].n, calls[t].config)
            /\ calls' = [calls EXCEPT ![t].pc = "set_hash", ![t].built = TRUE]
    /\ UNCHANGED <<notclient, sequential, returned, config_doc, config_hash, writer, ncalls>>

\* `_config_hash = current_config_hash`
SetHash(t) ==
    /\ calls[t].pc = "set_hash"
    /\ config_hash' = calls[t].current_config_hash
    /\ calls' = [calls EXCEPT ![t].pc = "return"]
    /\ UNCHANGED <<notclient, sequential, returned, config_doc, memory_client, writer, ncalls>>

\* the failure handler without its first assignment: the cached client stays
ClearClient_keeps_client(t) ==
    /\ calls[t].pc = "clear_client"
    /\ calls' = [calls EXCEPT ![t].pc = "clear_hash"]
    /\ UNCHANGED <<notclient, sequential, returned, config_doc, memory_client,
                   config_hash, writer, ncalls>>

\* except init_error: `_memory_client = None`
ClearClient(t) ==
    /\ calls[t].pc = "clear_client"
    /\ memory_client' = NoClient
    /\ calls' = [calls EXCEPT ![t].pc = "clear_hash"]
    /\ UNCHANGED <<notclient, sequential, returned, config_doc, config_hash, writer, ncalls>>

\* except init_error: `_config_hash = None; return None`
ClearHash(t) ==
    /\ calls[t].pc = "clear_hash"
    /\ config_hash' = NoHash
    /\ calls' = [calls EXCEPT ![t] = NoCall]
    /\ returned' = [calls[t] EXCEPT !.pc = "idle", !.result = NoClient]
    /\ UNCHANGED <<notclient, sequential, config_doc, memory_client, writer, ncalls>>

\* `return _memory_client`: the global as it is now
Return(t) ==
    /\ calls[t].pc = "return"
    /\ calls' = [calls EXCEPT ![t] = NoCall]
    /\ returned' = [calls[t] EXCEPT !.pc = "idle", !.result = memory_client]
    /\ UNCHANGED <<notclient, sequential, config_doc, memory_client, config_hash, writer, ncalls>>

\* reset_memory_client(): `_memory_client = None`
ResetClient ==
    /\ writer.pc = "reset_client"
    /\ memory_client' = NoClient
    /\ writer' = [writer EXCEPT !.pc = "reset_hash"]
    /\ UNCHANGED <<notclient, sequential, returned, config_doc, config_hash, calls, ncalls>>

\* reset_memory_client(): `_config_hash = None`
ResetHash ==
    /\ writer.pc = "reset_hash"
    /\ config_hash' = NoHash
    /\ writer' = [pc |-> "idle", fresh |-> TRUE]
    /\ UNCHANGED <<notclient, sequential, returned, config_doc, memory_client, calls, ncalls>>

\* ---------------------------------------------------- routers/config.py
\* a key that a stored dictionary does not have, where that differs from null
Absent == "ABSENT"
\* the graph_store section built from NEO4J_URL, NEO4J_USERNAME and NEO4J_PASSWORD
DefaultGraphStore == Section("neo4j", "bolt://env-neo4j:7687", "env:NEO4J_PASSWORD")

\* get_default_configuration(): a graph_store section only when the NEO4J_*
\* variables are set (neo4j)
default_configuration(neo4j) ==
    Document(NULL, DefaultLLM, DefaultEmbedder, NoSection,
             IF neo4j THEN DefaultGraphStore ELSE NoSection)

\* the dictionary get_config_from_db returns: the default when there is no row,
\* else the row's value with a missing openmemory, llm or embedder section
\* filled in, and a missing graph_store when the default has one
config_from_db(doc, default_config) ==
    IF ~doc.row THEN default_config
    ELSE [doc EXCEPT
            !.custom_instructions = IF @ = Absent THEN default_config.custom_instructions ELSE @,
            !.llm = IF @ = NoSection THEN default_config.llm ELSE @,
            !.embedder = IF @ = NoSection THEN default_config.embedder ELSE @,
            !.graph_store = IF @ = NoSection THEN default_config.graph_store ELSE @]

\* what get_config_from_db leaves in the table: it inserts the default when
\* there is no row; of a row it changes the loaded dictionary in place, and
\* `config_value != config.value` compares that dictionary with itself, so the
\* filled-in value is never written
stored_after_read(doc, default_config) == IF ~doc.row THEN default_config ELSE doc

\* with no NEO4J_* variable in the environment the default has no graph_store
get_default_configuration == default_configuration(FALSE)

get_config_from_db(doc) == config_from_db(doc, get_default_configuration)

\* save_config_to_db, then the handler's call of reset_memory_client begins
save_config_to_db(config) ==
    /\ writer.pc = "idle"
    /\ sequential => AllIdle
    /\ config_doc' = config
    /\ writer' = [pc |-> "reset_client", fresh |-> FALSE]
    /\ UNCHANGED <<notclient, sequential, returned, memory_client, config_hash, calls, ncalls>>

\* class ConfigSchema: the bodies PUT /config/ is sent
ConfigSchema(custom_instructions, llm, embedder, graph_store) ==
    [custom_instructions |-> custom_instructions, llm |-> llm,
     embedder |-> embedder, graph_store |-> graph_store]
ConfigSchemas ==
    {ConfigSchema(NULL, OtherLLM, NoSection, NoSection),
     ConfigSchema(CustomInstructions, NoSection, DefaultEmbedder, OtherGraphStore)}

\* PUT /config/: openmemory is updated with the non-null fields, mem0 is replaced
update_configuration(config) ==
    LET current_config == get_config_from_db(config_doc)
    IN save_config_to_db(
          Document(IF config.custom_instructions # NULL THEN config.custom_instructions
                   ELSE current_config.custom_instructions,
                   config.llm, config.embedder, NoSection, config.graph_store))

\* POST /config/reset
reset_configuration == save_config_to_db(get_default_configuration)

\* PUT /config/mem0/llm
update_llm_configuration(llm_config) ==
    save_config_to_db([get_config_from_db(config_doc) EXCEPT !.llm = llm_config])

\* PUT /config/mem0/embedder
update_embedder_configuration(embedder_config) ==
    save_config_to_db([get_config_from_db(config_doc) EXCEPT !.embedder = embedder_config])

\* PUT /config/openmemory: dict(exclude_none=True) drops a null custom_instructions
update_openmemory_configuration(custom_instructions) ==
    save_config_to_db([get_config_from_db(config_doc) EXCEPT
        !.custom_instructions = IF custom_instructions # NULL THEN custom_instructions
                                ELSE @])

\* PUT /config/mem0/graph-store
update_graph_store_configuration(graph_store_config) ==
    save_config_to_db([get_config_from_db(config_doc) EXCEPT
        !.graph_store = graph_store_config])

\* DELETE /config/mem0/graph-store: 404 without a graph_store section; the read
\* has then still created the row when there was none
delete_graph_store_configuration ==
    LET current_config == get_config_from_db(config_doc)
    IN IF current_config.graph_store # NoSection
       THEN save_config_to_db([current_config EXCEPT !.graph_store = NoSection])
       ELSE /\ writer.pc = "idle"
            /\ sequential => AllIdle
            /\ ~config_doc.row
            /\ config_doc' = current_config
            /\ UNCHANGED <<notclient, sequential, returned, memory_client, config_hash, calls, writer, ncalls>>

\* ------------------------------------------------------------ behaviours
\* what get_memory_client may be passed, and what the configuration API is sent
InstructionArgs == {NULL, "ci-arg"}

NextClient ==
    \/ \E t \in Threads, ci \in InstructionArgs, db_up \in BOOLEAN :
          GetMemoryClient(t, ci, db_up)
    \/ \E t \in Threads : CheckClient(t)
    \/ \E t \in Threads : CheckHash(t)
    \/ \E t \in Threads, raises \in BOOLEAN : FromConfig(t, raises)
    \/ \E t \in Threads : SetHash(t)
    \/ \E t \in Threads : ClearClient(t)
    \/ \E t \in Threads : ClearHash(t)
    \/ \E t \in Threads : Return(t)
    \/ ResetClient
    \/ ResetHash
    \/ \E config \in ConfigSchemas : update_configuration(config)
    \/ reset_configuration
    \/ update_llm_configuration(OtherLLM)
    \/ update_embedder_configuration(DefaultEmbedder)
    \/ \E ci \in {NULL, CustomInstructions} : update_openmemory_configuration(ci)
    \/ update_graph_store_configuration(OtherGraphStore)
    \/ delete_graph_store_configuration

\* the service started, the tables as the router's Init leaves them
InitClient(seq) ==
    /\ RouterInit /\ AccessInit /\ LibInit
    /\ config_doc = NoDocument
    /\ memory_client = NoClient
    /\ config_hash = NoHash
    /\ calls = [t \in Threads |-> NoCall]
    /\ returned = NoCall
    /\ writer = NoWrite
    /\ ncalls = 0
    /\ sequential = seq

\* callers that overlap: threads run get_memory_client while the configuration
\* API replaces or resets the llm section
NextRace ==
    \/ \E t \in Threads, ci \in InstructionArgs, db_up \in BOOLEAN :
          ncalls < MaxRaceCalls /\ GetMemoryClient(t, ci, db_up)
    \/ \E t \in Threads : CheckClient(t)
    \/ \E t \in Threads : CheckHash(t)
    \/ \E t \in Threads, raises \in BOOLEAN : FromConfig(t, raises)
    \/ \E t \in Threads : SetHash(t)
    \/ \E t \in Threads : ClearClient(t)
    \/ \E t \in Threads : ClearHash(t)
    \/ \E t \in Threads : Return(t)
    \/ ResetClient
    \/ ResetHash
    \/ reset_configuration
    \/ update_llm_configuration(OtherLLM)

SpecRace == InitClient(FALSE) /\ [][NextRace]_vars
\* sequential use: a call or a configuration request starts when nothing else runs
SpecSequential == InitClient(TRUE) /\ [][NextClient]_vars

\* ===================================================================
\* Properties of the client cache and the configuration API
\* ===================================================================

\* the last call that returned was the first one after a finished configuration
\* write, was passed no instructions and read the document
FirstCallAfterWrite ==
    /\ returned.after_write
    /\ returned.custom_instructions = NULL
    /\ returned.loaded.row
    /\ ~returned.failed

\* the sections of the document that the effective configuration takes over
ReflectsEngineSections(config, doc) ==
    /\ doc.llm # NoSection => config.llm = parse_section(doc.llm)
    /\ doc.embedder # NoSection => config.embedder = parse_section(doc.embedder)
    /\ doc.custom_instructions # NULL =>
          config.custom_fact_extraction_prompt = doc.custom_instructions
ReflectsGraphStore(config, doc) == config.graph_store = parse_section(doc.graph_store)

\* C17: every successful configuration write clears the cached client and its
\* hash, so the next get_memory_client call constructs a client from a
\* configuration that reflects the written document (its llm, embedder,
\* graph_store and custom instructions).
C17_NextClientReflectsTheWrite ==
    FirstCallAfterWrite =>
        /\ returned.before = NoClient /\ returned.before_hash = NoHash
        /\ returned.built /\ returned.result.id = returned.n
        /\ ReflectsEngineSections(returned.result.config, returned.loaded)
        /\ ReflectsGraphStore(returned.result.config, returned.loaded)

\* C17, the case that fails: the written document has a graph_store section
C17_Witness == FirstCallAfterWrite /\ returned.loaded.graph_store # NoSection

\* C17 apart from the graph store: the write cleared the cache, the call built a
\* new client, and its llm, embedder and instructions are the document's
C17_WriteClearsTheCache ==
    FirstCallAfterWrite =>
        /\ returned.before = NoClient /\ returned.before_hash = NoHash
        /\ returned.built /\ returned.result.id = returned.n
        /\ ReflectsEngineSections(returned.result.config, returned.loaded)

\* C18: under every interleaving of get_memory_client and reset_memory_client
\* calls, whenever _memory_client and _config_hash are both set, _config_hash is
\* the hash of the configuration the cached client was built from, and a call
\* never returns a client built from another configuration than its own (the
\* one whose hash it compared).
C18_PairIsConsistent ==
    (memory_client # NoClient /\ config_hash # NoHash) =>
        config_hash = _get_config_hash(memory_client.config)
C18_ReturnsClientOfItsConfiguration ==
    returned.result # NoClient => returned.result.config = returned.config
C18_CacheIsNeverCorrupted ==
    C18_PairIsConsistent /\ C18_ReturnsClientOfItsConfiguration

\* C18, the case: both globals are set while another call is between its steps
C18_Witness ==
    /\ memory_client # NoClient /\ config_hash # NoHash
    /\ \E t \in Threads : calls[t].pc \notin {"idle", "check_client"}

\* a call has returned; it called Memory.from_config (which built or raised)
SomeCallReturned == returned.n > 0
AttemptedConstruction == returned.built \/ returned.failed

C19_CacheHit == SomeCallReturned /\ ~AttemptedConstruction

C20_NextCallReturned == returned.after_failure /\ returned.built

\* ===================================================================
\* The database override of get_memory_client (utils/memory.py 497-556)
\* ===================================================================
\* a vector_store section only a direct write to the configs table can store:
\* Mem0Config has no such field
OtherVectorStore == Section("chroma", "openmemory", NULL)

\* the values the Config row may hold when the service starts
StoredDocuments ==
    {NoDocument} \cup
    {Document(ci, llm, embedder, vector_store, graph_store) :
        ci \in {NULL, CustomInstructions},
        llm \in {NoSection, DefaultLLM, OtherLLM},
        embedder \in {NoSection, DefaultEmbedder},
        vector_store \in {NoSection, OtherVectorStore},
        graph_store \in {NoSection, OtherGraphStore}}

\* get_memory_client over every stored document; nothing writes the document
InitOverride ==
    /\ RouterInit /\ AccessInit /\ LibInit
    /\ config_doc \in StoredDocuments
    /\ memory_client = NoClient
    /\ config_hash = NoHash
    /\ calls = [t \in Threads |-> NoCall]
    /\ returned = NoCall
    /\ writer = NoWrite
    /\ ncalls = 0
    /\ sequential = TRUE

NextOverride ==
    \/ \E ci \in InstructionArgs, db_up \in BOOLEAN :
          ncalls < MaxRaceCalls /\ GetMemoryClient("t1", ci, db_up)
    \/ CheckClient("t1")
    \/ CheckHash("t1")
    \/ \E raises \in BOOLEAN : FromConfig("t1", raises)
    \/ SetHash("t1")
    \/ ClearClient("t1")
    \/ ClearHash("t1")
    \/ Return("t1")

SpecOverride == InitOverride /\ [][NextOverride]_vars

\* a section of the effective configuration is the document's when the
\* document was read and holds it, else the computed default; both after the
\* env: pass that get_memory_client runs over the whole dictionary
OverriddenBy(section, stored, computed) ==
    section = parse_section(IF stored # NoSection THEN stored ELSE computed)
DocumentWasRead == returned.n > 0 /\ returned.loaded.row

\* C21: in the effective configuration each of llm, embedder, vector_store and
\* graph_store is the persisted document's section of that name when it is
\* present and non-null, and the value computed from environment and defaults
\* otherwise.
C21_DatabaseOverridesEverySection ==
    DocumentWasRead =>
        /\ OverriddenBy(returned.config.llm, returned.loaded.llm, DefaultLLM)
        /\ OverriddenBy(returned.config.embedder, returned.loaded.embedder, DefaultEmbedder)
        /\ OverriddenBy(returned.config.vector_store, returned.loaded.vector_store,
                        DefaultVectorStore)
        /\ OverriddenBy(returned.config.graph_store, returned.loaded.graph_store, NoSection)

\* C21, the case that fails: the document read has a graph_store section
C21_Witness == DocumentWasRead /\ returned.loaded.graph_store # NoSection

\* C21 apart from the graph store: llm, embedder and vector_store are overridden
C21_DatabaseOverridesThreeSections ==
    DocumentWasRead =>
        /\ OverriddenBy(returned.config.llm, returned.loaded.llm, DefaultLLM)
        /\ OverriddenBy(returned.config.embedder, returned.loaded.embedder, DefaultEmbedder)
        /\ OverriddenBy(returned.config.vector_store, returned.loaded.vector_store,
                        DefaultVectorStore)
        /\ returned.config.graph_store = NoSection

\* ===================================================================
\* _parse_environment_variables (utils/memory.py 453-479) over any
\* dictionary and any environment
\* ===================================================================
MaxPasses == 2      \* applications of the pass to one dictionary

\* Python values.  A str is the sequence of its pieces, the piece "env:" being
\* that prefix: <<"env:", "A">> is 'env:A', <<"A">> is 'A', <<>> is ''.
Str(pieces) == [type |-> "str", v |-> pieces]
Number(n) == [type |-> "int", v |-> n]
List(items) == [type |-> "list", v |-> items]
Dict(items) == [type |-> "dict", v |-> items]
startswith_env(value) == value.type = "str" /\ value.v # <<>> /\ Head(value.v) = "env:"

\* os.environ.get(name): None for a name that is not set
EnvNames == {<<"A">>, <<"B">>}
Unset == [set |-> FALSE]
SetTo(pieces) == [set |-> TRUE, value |-> pieces]
environ_get(os_environ, name) == IF name \in EnvNames THEN os_environ[name] ELSE Unset

\* the environments: A unset, empty, plain, or itself of the form env:B
Environments ==
    {[name \in EnvNames |-> IF name = <<"A">> THEN a ELSE b] :
        a \in {Unset, SetTo(<<>>), SetTo(<<"sk-a">>), SetTo(<<"env:", "B">>)},
        b \in {Unset, SetTo(<<"sk-b">>)}}

\* one value of a dictionary: `value.split(":", 1)[1]` is the text after the prefix
parse_item(os_environ, value) ==
    IF startswith_env(value)
    THEN LET env_value == environ_get(os_environ, Tail(value.v))
         IN IF env_value.set /\ env_value.value # <<>> THEN Str(env_value.value)
            ELSE value
    ELSE value

\* the recursion over nested dictionaries; the model's dictionaries nest once
parse_dict(os_environ, config_dict) ==
    Dict([key \in DOMAIN config_dict.v |->
            IF config_dict.v[key].type = "dict"
            THEN Dict([k \in DOMAIN config_dict.v[key].v |->
                         parse_item(os_environ, config_dict.v[key].v[k])])
            ELSE parse_item(os_environ, config_dict.v[key])])

\* _parse_environment_variables(config_dict) in the environment os_environ
parse_environment_variables(os_environ, config_dict) ==
    IF config_dict.type = "dict" THEN parse_dict(os_environ, config_dict)
    ELSE config_dict

\* the leaves a dictionary may hold, and the dictionaries the pass is given
Leaves ==
    {Str(<<"env:", "A">>), Str(<<"env:", "B">>), Str(<<"env:">>), Str(<<"A">>),
     Number(2000), List(<<Str(<<"env:", "A">>)>>)}
ConfigDicts ==
    {Dict([key \in {"api_key", "config"} |->
             IF key = "api_key" THEN leaf ELSE Dict([k \in {"password"} |-> nested])]) :
        leaf \in Leaves, nested \in Leaves}
    \cup {Str(<<"env:", "A">>)}

\* the pass is applied to the dictionary, then to its own result
ParseEnvironmentVariables ==
    /\ Len(env_pass.passes) < MaxPasses
    /\ env_pass' = [env_pass EXCEPT !.passes =
          Append(@, parse_environment_variables(env_pass.environ,
                       IF @ = <<>> THEN env_pass.config_dict ELSE @[Len(@)]))]
    /\ UNCHANGED <<notlib, detection, config_api, dual_write, tencent>>

InitEnvPass ==
    /\ RouterInit /\ AccessInit /\ ServiceInit /\ ClientInit
    /\ detection = NoDetection /\ config_api = NoApiRequest /\ dual_write = NoQueries
    /\ tencent = NoConnector
    /\ env_pass \in [environ : Environments, config_dict : ConfigDicts, passes : {<<>>}]

NextEnvPass == ParseEnvironmentVariables

SpecEnvPass == InitEnvPass /\ [][NextEnvPass]_vars

\* the leaves of a dictionary that do not start with 'env:' are the same in `after`
RECURSIVE OtherLeavesUnchanged(_, _)
OtherLeavesUnchanged(before, after) ==
    IF before.type = "dict"
    THEN /\ after.type = "dict" /\ DOMAIN after.v = DOMAIN before.v
         /\ \A key \in DOMAIN before.v : OtherLeavesUnchanged(before.v[key], after.v[key])
    ELSE startswith_env(before) \/ after = before

\* C22: the env: pass is idempotent and total: for every dictionary and every
\* environment applying it twice gives what applying it once gives, and every
\* leaf that does not start with 'env:' is left unchanged.
C22_PassIsIdempotent ==
    /\ Len(env_pass.passes) >= 1 =>
          OtherLeavesUnchanged(env_pass.config_dict, env_pass.passes[1])
    /\ Len(env_pass.passes) = 2 => env_pass.passes[2] = env_pass.passes[1]

\* C22, the case that fails: a referenced variable's value itself starts with
\* 'env:', and the pass has run twice
references(value, name) == startswith_env(value) /\ Tail(value.v) = name
C22_Witness ==
    /\ Len(env_pass.passes) = 2
    /\ env_pass.config_dict.type = "dict"
    /\ references(env_pass.config_dict.v["api_key"], <<"A">>)
    /\ env_pass.environ[<<"A">>] = SetTo(<<"env:", "B">>)
    /\ env_pass.environ[<<"B">>].set

\* C22 in the environments where no value starts with 'env:'
NoEnvInEnviron ==
    \A name \in EnvNames :
        env_pass.environ[name].set => ~startswith_env(Str(env_pass.environ[name].value))
C22_IdempotentWithPlainValues == (env_pass.passes # <<>> /\ NoEnvInEnviron) => C22_PassIsIdempotent

\* ===================================================================
\* _detect_vector_store_config (utils/memory.py 301-366)
\* ===================================================================
MaxConfigured == 2      \* providers other than Tencent with all their variables set

\* os.environ: the names whose value is a non-empty string, and the two
\* variables whose value matters
TencentNames == {"TENCENT_VECTORDB_URL", "TENCENT_VECTORDB_KEY", "TENCENT_VECTORDB_USERNAME"}
ProviderOrder == <<"chroma", "qdrant", "weaviate", "redis", "pgvector", "milvus", "elasticsearch", "opensearch", "faiss">>
Providers == {ProviderOrder[i] : i \in DOMAIN ProviderOrder}
ProviderNames(provider) ==
    CASE provider = "chroma" -> {"CHROMA_HOST", "CHROMA_PORT"}
      [] provider = "qdrant" -> {"QDRANT_HOST", "QDRANT_PORT"}
      [] provider = "weaviate" -> {"WEAVIATE_HOST", "WEAVIATE_PORT"}
      [] provider = "redis" -> {"REDIS_URL"}
      [] provider = "pgvector" -> {"PG_HOST", "PG_PORT"}
      [] provider = "milvus" -> {"MILVUS_HOST", "MILVUS_PORT"}
      [] provider = "elasticsearch" -> {"ELASTICSEARCH_HOST", "ELASTICSEARCH_PORT"}
      [] provider = "opensearch" -> {"OPENSEARCH_HOST", "OPENSEARCH_PORT"}
      [] provider = "faiss" -> {"FAISS_PATH"}
OtherNames == UNION {ProviderNames(p) : p \in Providers} \cup {"WEAVIATE_CLUSTER_URL"}
DetectEnvironments ==
    {[VECTOR_STORE_PROVIDER |-> explicit, TENCENT_VECTORDB_METRIC_TYPE |-> metric,
      set |-> credentials \cup UNION {ProviderNames(p) : p \in configured} \cup one] :
        explicit \in {NULL, "tencent_vectordb", "chroma"},
        metric \in {NULL, "l2", "euclidean"},
        credentials \in SUBSET TencentNames,
        configured \in {P \in SUBSET Providers : Cardinality(P) <= MaxConfigured},
        one \in {{}} \cup {{name} : name \in OtherNames}}

\* what a call gives: a provider with its configuration, or the ValueError raised
Detected(provider, config) == [provider |-> provider, config |-> config]
ValueError(name) == [raises |-> "ValueError", about |-> name]
raised(result) == "raises" \in DOMAIN result

\* _get_tencent_vectordb_config (147-189), the fields the environment of the model decides
get_tencent_vectordb_config(os_environ) ==
    LET metric_type == IF os_environ.TENCENT_VECTORDB_METRIC_TYPE = NULL THEN "cosine"
                       ELSE os_environ.TENCENT_VECTORDB_METRIC_TYPE
    IN IF "TENCENT_VECTORDB_URL" \notin os_environ.set THEN ValueError("TENCENT_VECTORDB_URL")
       ELSE IF "TENCENT_VECTORDB_KEY" \notin os_environ.set THEN ValueError("TENCENT_VECTORDB_KEY")
       ELSE IF "TENCENT_VECTORDB_USERNAME" \notin os_environ.set THEN ValueError("TENCENT_VECTORDB_USERNAME")
       ELSE IF metric_type \notin {"cosine", "l2", "ip"} THEN ValueError("TENCENT_VECTORDB_METRIC_TYPE")
       ELSE Detected("tencent_vectordb", [metric_type |-> metric_type])

\* the condition of the first branch (316-319)
tencent_selected_with_username(os_environ) == TencentNames \subseteq os_environ.set
tencent_selected(os_environ) ==
    \/ os_environ.VECTOR_STORE_PROVIDER = "tencent_vectordb"
    \/ {"TENCENT_VECTORDB_URL", "TENCENT_VECTORDB_KEY"} \subseteq os_environ.set

\* _detect_vector_store_config: the branches in the order of the code
detect_vector_store_config(os_environ) ==
    LET set(name) == name \in os_environ.set
    IN IF tencent_selected(os_environ) THEN get_tencent_vectordb_config(os_environ)
       ELSE IF set("CHROMA_HOST") /\ set("CHROMA_PORT") THEN Detected("chroma", "_get_chroma_config")
       ELSE IF set("QDRANT_HOST") /\ set("QDRANT_PORT") THEN Detected("qdrant", "_get_qdrant_config")
       ELSE IF set("WEAVIATE_CLUSTER_URL") \/ (set("WEAVIATE_HOST") /\ set("WEAVIATE_PORT"))
            THEN Detected("weaviate", "_get_weaviate_config")
       ELSE IF set("REDIS_URL") THEN Detected("redis", "_get_redis_config")
       ELSE IF set("PG_HOST") /\ set("PG_PORT") THEN Detected("pgvector", "_get_pgvector_config")
       ELSE IF set("MILVUS_HOST") /\ set("MILVUS_PORT") THEN Detected("milvus", "_get_milvus_config")
       ELSE IF set("ELASTICSEARCH_HOST") /\ set("ELASTICSEARCH_PORT")
            THEN Detected("elasticsearch", "_get_elasticsearch_config")
       ELSE IF set("OPENSEARCH_HOST") /\ set("OPENSEARCH_PORT")
            THEN Detected("opensearch", "_get_opensearch_config")
       ELSE IF set("FAISS_PATH") THEN Detected("faiss", "_get_faiss_config")
       ELSE Detected("qdrant", "_get_default_qdrant_config")

\* one call of the function in the environment drawn at the start
DetectVectorStoreConfig ==
    /\ detection.detected = <<>>
    /\ detection' = [detection EXCEPT !.detected = <<detect_vector_store_config(detection.environ)>>]
    /\ UNCHANGED <<notlib, env_pass, config_api, dual_write, tencent>>

InitDetect ==
    /\ RouterInit /\ AccessInit /\ ServiceInit /\ ClientInit
    /\ env_pass = NoPass /\ config_api = NoApiRequest /\ dual_write = NoQueries
    /\ tencent = NoConnector
    /\ detection \in [environ : DetectEnvironments, detected : {<<>>}]

NextDetect == DetectVectorStoreConfig

SpecDetect == InitDetect /\ [][NextDetect]_vars

\* the priority order as stated: the first provider of the
\* order whose variables are all set, Qdrant when there is none
VariablesSet(provider, env) ==
    \/ ProviderNames(provider) \subseteq env.set
    \/ provider = "weaviate" /\ "WEAVIATE_CLUSTER_URL" \in env.set
FirstByPriority(env) ==
    LET set == {i \in DOMAIN ProviderOrder : VariablesSet(ProviderOrder[i], env)}
    IN IF set = {} THEN "qdrant"
       ELSE ProviderOrder[CHOOSE i \in set : \A j \in set : i <= j]
HasDetected == detection.detected # <<>>
TheDetected == detection.detected[1]

C23_WitnessLaterProvider ==
    /\ HasDetected /\ ~raised(TheDetected) /\ TheDetected.provider = "redis"
    /\ "CHROMA_HOST" \in detection.environ.set
    /\ VariablesSet("faiss", detection.environ)

\* ===================================================================
\* The configuration API request by request (routers/config.py 121-340)
\* ===================================================================
MaxRequests == 3    \* requests served in one behaviour

\* <model>.dict(exclude_none=True): a null optional field is left out
exclude_none(section) == [section EXCEPT !.secret = IF @ = NULL THEN Absent ELSE @]
\* response_model=...: an optional field the dictionary lacks is sent as null
response_model(section) == [section EXCEPT !.secret = IF @ = Absent THEN NULL ELSE @]
\* response_model=OpenMemoryConfig
openmemory_response(custom_instructions) ==
    IF custom_instructions = Absent THEN NULL ELSE custom_instructions
\* response_model=ConfigSchema: openmemory and the llm, embedder, graph_store
\* sections of mem0
config_response(config) ==
    [custom_instructions |-> openmemory_response(config.custom_instructions),
     llm |-> response_model(config.llm), embedder |-> response_model(config.embedder),
     graph_store |-> response_model(config.graph_store)]

\* the request served last: its route, its body, the status and the body of the
\* response, and the request before it
Served(route, body, status, data) ==
    [neo4j |-> config_api.neo4j, n |-> config_api.n + 1,
     request |-> route, body |-> body, status |-> status, data |-> data,
     before |-> [request |-> config_api.request, status |-> config_api.status]]
NotFound == "Graph store configuration not found"
current_default == default_configuration(config_api.neo4j)
current_config == config_from_db(config_doc, current_default)

\* what the handlers of the configuration API leave alone
notapi == <<users, apps, memories, history, memory_categories, deleted_ok, reqvars, last, access_controls, accessible, env_pass, detection, dual_write, tencent, calls, returned, writer, ncalls, sequential, services>>

\* a handler that only reads: get_config_from_db, then the response
Read(route, status, data) ==
    /\ config_api.n < MaxRequests
    /\ config_api' = Served(route, NULL, status, data)
    /\ config_doc' = stored_after_read(config_doc, current_default)
    /\ UNCHANGED <<notapi, memory_client, config_hash>>

\* a handler that writes: save_config_to_db(config), reset_memory_client(), then the response
Write(route, body, config, data) ==
    /\ config_api.n < MaxRequests
    /\ config_api' = Served(route, body, 200, data)
    /\ config_doc' = config
    /\ memory_client' = NoClient
    /\ config_hash' = NoHash
    /\ UNCHANGED notapi

\* GET /config/
GetConfiguration == Read("GET /", 200, config_response(current_config))
\* POST /config/reset
PostReset == Write("POST /reset", NULL, current_default, config_response(current_default))
\* GET /config/mem0/llm
GetLLM == Read("GET /mem0/llm", 200, response_model(current_config.llm))
\* PUT /config/mem0/llm
PutLLM(llm_config) ==
    LET updated == [current_config EXCEPT !.llm = exclude_none(llm_config)]
    IN Write("PUT /mem0/llm", llm_config, updated, response_model(updated.llm))
\* GET /config/mem0/embedder
GetEmbedder == Read("GET /mem0/embedder", 200, response_model(current_config.embedder))
\* PUT /config/mem0/embedder
PutEmbedder(embedder_config) ==
    LET updated == [current_config EXCEPT !.embedder = exclude_none(embedder_config)]
    IN Write("PUT /mem0/embedder", embedder_config, updated, response_model(updated.embedder))
\* GET /config/openmemory
GetOpenMemory ==
    Read("GET /openmemory", 200, openmemory_response(current_config.custom_instructions))
\* PUT /config/openmemory: `.update(openmemory_config.dict(exclude_none=True))`
PutOpenMemory(custom_instructions) ==
    LET updated == [current_config EXCEPT !.custom_instructions =
                       IF custom_instructions = NULL THEN @ ELSE custom_instructions]
    IN Write("PUT /openmemory", custom_instructions, updated,
             openmemory_response(updated.custom_instructions))
\* GET /config/mem0/graph-store
GetGraphStore ==
    IF current_config.graph_store = NoSection THEN Read("GET /mem0/graph-store", 404, NotFound)
    ELSE Read("GET /mem0/graph-store", 200, response_model(current_config.graph_store))
\* PUT /config/mem0/graph-store
PutGraphStore(graph_store_config) ==
    LET updated == [current_config EXCEPT !.graph_store = exclude_none(graph_store_config)]
    IN Write("PUT /mem0/graph-store", graph_store_config, updated,
             response_model(updated.graph_store))
\* DELETE /config/mem0/graph-store
DeleteGraphStore ==
    IF current_config.graph_store = NoSection
    THEN Read("DELETE /mem0/graph-store", 404, NotFound)
    ELSE Write("DELETE /mem0/graph-store", NULL,
               [current_config EXCEPT !.graph_store = NoSection],
               "Graph store configuration deleted successfully")

\* the bodies the section endpoints are sent
LLMBodies == {OtherLLM, Section("openai", "gpt-4o", NULL)}
EmbedderBodies == {Section("openai", "text-embedding-3-large", NULL)}
OpenMemoryBodies == {NULL, "ci-new"}
GraphStoreBodies == {OtherGraphStore}

\* the rows the table may hold when the service starts: none, or a document
\* with or without each of its sections
ApiDocuments ==
    {NoDocument} \cup
    {Document(custom_instructions, llm, embedder, NoSection, graph_store) :
        custom_instructions \in {Absent, NULL, CustomInstructions},
        llm \in {NoSection, DefaultLLM}, embedder \in {NoSection, DefaultEmbedder},
        graph_store \in {NoSection, OtherGraphStore}}

\* the client cache when the first request arrives: empty, or a client that
\* get_memory_client built from the defaults
BuiltFromDefaults == effective_config(NoDocument, NULL, FALSE)

InitApi ==
    /\ RouterInit /\ AccessInit /\ ServiceInit
    /\ env_pass = NoPass /\ detection = NoDetection /\ dual_write = NoQueries
    /\ tencent = NoConnector
    /\ config_doc \in ApiDocuments
    /\ \E cached \in BOOLEAN :
          /\ memory_client = IF cached THEN Client(1, BuiltFromDefaults) ELSE NoClient
          /\ config_hash = IF cached THEN _get_config_hash(BuiltFromDefaults) ELSE NoHash
    /\ calls = [t \in Threads |-> NoCall]
    /\ returned = NoCall
    /\ writer = NoWrite
    /\ ncalls = 0
    /\ sequential = TRUE
    /\ \E neo4j \in BOOLEAN :
          config_api = [neo4j |-> neo4j, n |-> 0, request |-> "none", body |-> NULL,
                        status |-> 0, data |-> NULL,
                        before |-> [request |-> "none", status |-> 0]]

NextApi ==
    \/ GetConfiguration
    \/ PostReset
    \/ GetLLM
    \/ \E llm_config \in LLMBodies : PutLLM(llm_config)
    \/ GetEmbedder
    \/ \E embedder_config \in EmbedderBodies : PutEmbedder(embedder_config)
    \/ GetOpenMemory
    \/ \E custom_instructions \in OpenMemoryBodies : PutOpenMemory(custom_instructions)
    \/ GetGraphStore
    \/ \E graph_store_config \in GraphStoreBodies : PutGraphStore(graph_store_config)
    \/ DeleteGraphStore

SpecApi == InitApi /\ [][NextApi]_vars

\* the stored document lacks a section that get_config_from_db fills in
LacksRequiredSection == config_doc.row /\ config_doc # current_config
IsGet(route) == route \in {"GET /", "GET /mem0/llm", "GET /mem0/embedder", "GET /openmemory", "GET /mem0/graph-store"}

\* C24: when the stored document lacks a required section (openmemory, mem0.llm,
\* mem0.embedder, or mem0.graph_store when the defaults have one), a read through
\* get_config_from_db returns the back-filled document and persists it.
C24_ReadPersistsTheBackfill ==
    [][(LacksRequiredSection /\ IsGet(config_api'.request)) =>
          /\ config_api'.request = "GET /" => config_api'.data = config_response(current_config)
          /\ config_doc' = current_config]_vars

\* C24, the case: GET /config/ answered with the default llm section for a
\* document that has none
C24_Witness ==
    /\ config_api.request = "GET /" /\ config_api.n = 1
    /\ config_doc.row /\ config_doc.llm = NoSection
    /\ config_api.data.llm = DefaultLLM

\* C24, what the code does: the read returns the back-filled document and leaves
\* the row as it was
C24_ReadReturnsTheBackfillOnly ==
    [][(LacksRequiredSection /\ IsGet(config_api'.request)) =>
          /\ config_api'.request = "GET /" => config_api'.data = config_response(current_config)
          /\ config_doc' = config_doc]_vars

IsPut(route) == route \in {"PUT /mem0/llm", "PUT /mem0/embedder", "PUT /openmemory", "PUT /mem0/graph-store"}
GetOf(route) ==
    CASE route = "PUT /mem0/llm" -> "GET /mem0/llm"
      [] route = "PUT /mem0/embedder" -> "GET /mem0/embedder"
      [] route = "PUT /openmemory" -> "GET /openmemory"
      [] route = "PUT /mem0/graph-store" -> "GET /mem0/graph-store"
PutThenGet == IsPut(config_api.request) /\ config_api'.request = GetOf(config_api.request)

\* C25: every sub-section endpoint replaces: after a successful PUT of llm,
\* embedder, openmemory or graph-store with body B the response equals B, and so
\* does the GET of that section that follows (for openmemory also when B sets the
\* custom instructions to null over existing ones).
C25_PutReplacesTheSection ==
    [][/\ IsPut(config_api'.request) => config_api'.data = config_api'.body
       /\ PutThenGet => (config_api'.status = 200 /\ config_api'.data = config_api.body)]_vars

\* C25, the case that fails: instructions are stored, PUT /config/openmemory is
\* sent null, and the GET that follows still answers the stored instructions
C25_Witness ==
    /\ config_api.request = "GET /openmemory"
    /\ config_api.before.request = "PUT /openmemory"
    /\ config_api.data = CustomInstructions

NullInstructions(served) == served.request = "PUT /openmemory" /\ served.body = NULL

\* C25 for every body but null instructions: the response and the following GET
\* equal the body
C25_PutReplacesUnlessNull ==
    [][/\ (IsPut(config_api'.request) /\ ~NullInstructions(config_api')) =>
             config_api'.data = config_api'.body
       /\ (PutThenGet /\ ~NullInstructions(config_api)) =>
             (config_api'.status = 200 /\ config_api'.data = config_api.body)]_vars

\* C25: a PUT whose body leaves the optional secret null is answered with, and
\* followed by a GET of, that body
C25_WitnessNullSecret ==
    /\ config_api.request = "GET /mem0/llm"
    /\ config_api.before.request = "PUT /mem0/llm"
    /\ config_api.data = Section("openai", "gpt-4o", NULL)
    /\ config_doc.llm.secret = Absent

OnGraphStore(route) == route \in {"GET /mem0/graph-store", "DELETE /mem0/graph-store"}
NoStoredGraphStore == ~config_doc.row \/ config_doc.graph_store = NoSection
Deleted == config_api.request = "DELETE /mem0/graph-store" /\ config_api.status = 200

\* C26: GET and DELETE /config/mem0/graph-store answer 404 when the section is
\* absent; after a successful DELETE the GET or DELETE that follows answers 404;
\* a 404 changes neither the stored document nor the client cache.
C26_DeletedStaysDeleted ==
    [][/\ (NoStoredGraphStore /\ OnGraphStore(config_api'.request)) => config_api'.status = 404
       /\ (Deleted /\ OnGraphStore(config_api'.request)) => config_api'.status = 404
       /\ config_api'.status = 404 =>
             UNCHANGED <<config_doc, memory_client, config_hash>>]_vars

\* C26, the case that fails: the section was deleted and the next GET answers it
C26_Witness ==
    /\ config_api.request = "GET /mem0/graph-store" /\ config_api.status = 200
    /\ config_api.before = [request |-> "DELETE /mem0/graph-store", status |-> 200]

\* C26 where no NEO4J_* variable is set: 404 for an absent section and after a
\* DELETE, and a 404 leaves the cache and an existing row as they were
C26_WithoutNeo4jDefaults ==
    [][~config_api.neo4j =>
          /\ (NoStoredGraphStore /\ OnGraphStore(config_api'.request)) => config_api'.status = 404
          /\ (Deleted /\ OnGraphStore(config_api'.request)) => config_api'.status = 404
          /\ config_api'.status = 404 =>
                /\ UNCHANGED <<memory_client, config_hash>>
                /\ config_doc' = stored_after_read(config_doc, current_default)]_vars

\* C26: a 404 answered while a client is cached
C26_WitnessNotFound ==
    /\ config_api.status = 404 /\ ~config_api.neo4j
    /\ config_api.before = [request |-> "DELETE /mem0/graph-store", status |-> 200]

\* ===================================================================
\* The patched Neo4jGraph.query (utils/neo4j_dual_write_patch.py)
\* ===================================================================
MaxQueries == 3     \* calls of the patched query in one behaviour

ENABLE_DUAL_WRITE == TRUE
WRITE_KEYWORDS == {<<"CREATE">>, <<"MERGE">>, <<"SET">>, <<"DELETE">>, <<"DETACH", "DELETE">>, <<"REMOVE">>}
\* a query is the sequence of its upper-cased words
Queries ==
    {<<"MATCH", "(N)", "RETURN", "N">>, <<"MATCH", "(N)", "SET", "N.V=1">>, <<"CREATE", "(N)">>,
     <<"DETACH", "DELETE", "N">>, <<"CREATED">>, <<>>}
\* should_dual_write: the query starts with a write keyword that ends at a word boundary
should_dual_write(query) ==
    /\ ENABLE_DUAL_WRITE
    /\ query # <<>>
    /\ \E keyword \in WRITE_KEYWORDS :
          Len(keyword) <= Len(query) /\ SubSeq(query, 1, Len(keyword)) = keyword

\* what requests.post gives: a response with a status and a body, or an exception
Rows == <<"row">>
Json(success, result) == [success |-> success, result |-> result]
JsonNull == [null |-> TRUE]
JsonList(rows) == [rows |-> rows]
NoKey == [key |-> FALSE]
HttpResponse(status_code, json) == [kind |-> "response", status_code |-> status_code, json |-> json]
Raised(exception) == [kind |-> exception]
HttpOutcomes ==
    {HttpResponse(200, Json(TRUE, JsonList(Rows))), HttpResponse(200, Json(TRUE, JsonList(<<>>))),
     HttpResponse(200, Json(TRUE, NoKey)), HttpResponse(200, Json(TRUE, JsonNull)),
     HttpResponse(200, Json(FALSE, NoKey)), HttpResponse(500, Json(TRUE, JsonList(Rows))),
     Raised("Timeout"), Raised("ConnectionError"), Raised("JSONDecodeError")}

\* execute_via_http_api: the result list, or None
None_ == [none |-> TRUE]
is_None(value) == "none" \in DOMAIN value
execute_via_http_api_any_status(outcome) == IF outcome.kind # "response" THEN None_ ELSE [rows |-> Rows]
execute_via_http_api(outcome) ==
    IF outcome.kind # "response" THEN None_
    ELSE IF outcome.status_code # 200 THEN None_
    ELSE IF outcome.json.success
         THEN IF outcome.json.result = NoKey THEN JsonList(<<>>)
              ELSE IF outcome.json.result = JsonNull THEN None_
              ELSE outcome.json.result
    ELSE None_

\* DUAL_WRITE_STATS at import
NoStats == [key \in {"read_total", "read_success", "read_errors", "write_total", "write_success", "write_errors"} |-> 0]
\* a thread in wrapper: where it is, the class of its query, what the proxy
\* answered and what execute_via_http_api returned, the counter value it read
NoQuery == [pc |-> "idle"]
\* the counter a call updates next
stats_key(call) ==
    IF call.pc \in {"total", "total_locked"}
    THEN IF call.is_write THEN "write_total" ELSE "read_total"
    ELSE IF ~is_None(call.http_result)
         THEN IF call.is_write THEN "write_success" ELSE "read_success"
         ELSE IF call.is_write THEN "write_errors" ELSE "read_errors"

\* `with _stats_lock`: the lock is free
LockIgnored == TRUE
LockIsFree == dual_write.lock = "free"

\* wrapper is entered: the query is classified
Query(t, query) ==
    /\ dual_write.calls[t].pc = "idle"
    /\ dual_write.started < MaxQueries
    /\ dual_write' = [dual_write EXCEPT
          !.started = @ + 1,
          !.calls[t] = [pc |-> "total", is_write |-> should_dual_write(query),
                        outcome |-> Raised("none"), http_result |-> None_, read |-> 0]]
    /\ UNCHANGED <<notlib, env_pass, detection, config_api, tencent>>

\* _update_stats: the lock is taken and the counter read
UpdateStatsRead(t) ==
    /\ dual_write.calls[t].pc \in {"total", "result"}
    /\ LockIsFree
    /\ dual_write' = [dual_write EXCEPT
          !.lock = t,
          !.calls[t].read = dual_write.stats[stats_key(dual_write.calls[t])],
          !.calls[t].pc = IF @ = "total" THEN "total_locked" ELSE "result_locked"]
    /\ UNCHANGED <<notlib, env_pass, detection, config_api, tencent>>

\* what the call gives its caller: the list, or the exception
Returned(rows) == [returned |-> rows]
RaisedException == [raised |-> "graph_proxy unavailable"]

\* _update_stats: the counter is written and the lock released; after the
\* second update wrapper returns the list or raises
UpdateStatsWrite(t) ==
    LET call == dual_write.calls[t]
        key == stats_key(call)
    IN /\ call.pc \in {"total_locked", "result_locked"}
       /\ dual_write' =
             IF call.pc = "total_locked"
             THEN [dual_write EXCEPT !.stats[key] = call.read + 1, !.lock = "free",
                                     !.calls[t].pc = "http"]
             ELSE [dual_write EXCEPT
                     !.stats[key] = call.read + 1, !.lock = "free",
                     !.calls[t] = NoQuery,
                     !.done[key] = @ + 1,
                     !.last = [is_write |-> call.is_write, outcome |-> call.outcome,
                               result |-> IF is_None(call.http_result) THEN RaisedException
                                          ELSE Returned(call.http_result.rows)]]
       /\ UNCHANGED <<notlib, env_pass, detection, config_api, tencent>>

\* execute_via_http_api(query, params): the proxy answers, or does not
Post(t, outcome) ==
    /\ dual_write.calls[t].pc = "http"
    /\ dual_write' = [dual_write EXCEPT
          !.calls[t].outcome = outcome,
          !.calls[t].http_result = execute_via_http_api(outcome),
          !.calls[t].pc = "result"]
    /\ UNCHANGED <<notlib, env_pass, detection, config_api, tencent>>

\* get_dual_write_stats(): a copy taken under the lock
GetDualWriteStats ==
    /\ LockIsFree
    /\ dual_write' = [dual_write EXCEPT !.snapshot = dual_write.stats]
    /\ UNCHANGED <<notlib, env_pass, detection, config_api, tencent>>

InitDualWrite ==
    /\ RouterInit /\ AccessInit /\ ServiceInit /\ ClientInit
    /\ env_pass = NoPass /\ detection = NoDetection /\ config_api = NoApiRequest
    /\ tencent = NoConnector
    /\ dual_write = [started |-> 0, stats |-> NoStats, lock |-> "free",
                     calls |-> [t \in Threads |-> NoQuery], original_calls |-> 0,
                     done |-> NoStats, last |-> [result |-> None_], snapshot |-> NoStats]

NextDualWrite ==
    \/ \E t \in Threads, query \in Queries : Query(t, query)
    \/ \E t \in Threads : UpdateStatsRead(t)
    \/ \E t \in Threads : UpdateStatsWrite(t)
    \/ \E t \in Threads, outcome \in HttpOutcomes : Post(t, outcome)
    \/ GetDualWriteStats

SpecDualWrite == InitDualWrite /\ [][NextDualWrite]_vars

\* the proxy failed: no answer, an answer other than 200, or success false
ProxyFailed(outcome) ==
    \/ outcome.kind \in {"Timeout", "ConnectionError"}
    \/ outcome.kind = "response" /\ outcome.status_code # 200
    \/ outcome.kind = "response" /\ outcome.status_code = 200 /\ ~outcome.json.success
\* the proxy answered 200 with success true and a result list
ProxySucceeded(outcome) ==
    /\ outcome.kind = "response" /\ outcome.status_code = 200 /\ outcome.json.success
    /\ "rows" \in DOMAIN outcome.json.result
SomeQueryFinished == "outcome" \in DOMAIN dual_write.last

C27_WitnessRows ==
    /\ SomeQueryFinished
    /\ dual_write.last.outcome = HttpResponse(200, Json(TRUE, JsonList(Rows)))
    /\ dual_write.last.result = Returned(Rows)

\* the threads whose call is at one of the positions
QueriesAt(positions) == {t \in Threads : dual_write.calls[t].pc \in positions}
NoQueryRunning == QueriesAt({"idle"}) = Threads
Consistent(stats) ==
    /\ stats.read_success + stats.read_errors <= stats.read_total
    /\ stats.write_success + stats.write_errors <= stats.write_total

\* C28: no update of the statistics is lost under any interleaving of the
\* calls: every call adds one to read_total or write_total and later one to the
\* success or error counter of the same class, so success + errors <= total in
\* the counters and in every copy of them, with equality once all calls finished.
C28_NoUpdateLost ==
    LET stats == dual_write.stats
        done == dual_write.done
    IN /\ Consistent(stats) /\ Consistent(dual_write.snapshot)
       /\ stats.read_total + stats.write_total =
             dual_write.started - Cardinality(QueriesAt({"total", "total_locked"}))
       /\ \A key \in {"read_success", "read_errors", "write_success", "write_errors"} :
             stats[key] = done[key]
       /\ NoQueryRunning =>
             /\ stats.read_success + stats.read_errors = stats.read_total
             /\ stats.write_success + stats.write_errors = stats.write_total
             /\ stats.read_total + stats.write_total = dual_write.started

\* C28: a thread waits for the lock another thread holds, after a call finished
C28_Witness ==
    /\ dual_write.lock = "t1"
    /\ dual_write.calls["t2"].pc \in {"total", "result"}
    /\ dual_write.stats.read_total + dual_write.stats.write_total >= 1

\* C28: all calls finished, reads and writes, successes and errors
C28_WitnessFinished ==
    /\ NoQueryRunning /\ dual_write.started = MaxQueries
    /\ dual_write.stats.read_errors >= 1 /\ dual_write.stats.write_success >= 1

\* ===================================================================
\* TencentVectorDB._create_filter (mem0/vector_stores/tencent_vectordb.py 483-522)
\* ===================================================================
MaxKeys == 2        \* keys of one filter map

\* the values of a filter map: str, int/float, dict, None
Text(text) == [type |-> "str", v |-> text]
RangeMap(keys) == [type |-> "dict", v |-> [k \in keys |-> IF k = "lte" THEN 9 ELSE 1]]
NoneValue == [type |-> "NoneType", v |-> "None"]
FilterValues ==
    {Text("alice"), Number(5), NoneValue} \cup
    {RangeMap(keys) : keys \in SUBSET {"gte", "lte", "gt"}}
FilterKeys == {"user_id", "score", "created_at"}
\* a filter map: its items in the order of the dict, no key twice
Item(key, value) == [key |-> key, value |-> value]
FilterMaps ==
    {items \in UNION {[1..n -> [key : FilterKeys, value : FilterValues]] : n \in 0..MaxKeys} :
        \A i, j \in DOMAIN items : i # j => items[i].key # items[j].key}

\* the f-strings: a condition is the sequence of the pieces of its text, a number
\* its decimal text
Quoted(text) == <<"\"", text, "\"">>
\* the conditions one item appends: one, or none
conditions_of(key, value) ==
    IF value.type = "str" THEN <<<<key, "=">> \o Quoted(value.v)>>
    ELSE IF value.type = "int" THEN <<<<key, "=", ToString(value.v)>>>>
    ELSE IF value.type = "dict"
         THEN IF "gte" \in DOMAIN value.v /\ "lte" \in DOMAIN value.v
              THEN <<<<key, ">=", ToString(value.v["gte"]), "AND", key, "<=", ToString(value.v["lte"])>>>>
              ELSE IF "gte" \in DOMAIN value.v THEN <<<<key, ">=", ToString(value.v["gte"])>>>>
              ELSE IF "lte" \in DOMAIN value.v THEN <<<<key, "<=", ToString(value.v["lte"])>>>>
              ELSE <<>>
    ELSE <<<<key, "=">> \o Quoted(value.v)>>

\* the loop over filters.items()
RECURSIVE conditions(_)
conditions(items) ==
    IF items = <<>> THEN <<>>
    ELSE conditions_of(items[1].key, items[1].value) \o conditions(Tail(items))

\* " AND ".join(conditions)
RECURSIVE join_AND(_)
join_AND(conds) ==
    IF conds = <<>> THEN <<>>
    ELSE IF Len(conds) = 1 THEN conds[1]
    ELSE conds[1] \o <<"AND">> \o join_AND(Tail(conds))

\* _create_filter(filters): None for an empty map, else Filter(filter_expr)
Filter(filter_expr) == [cond |-> filter_expr]
create_filter(filters) ==
    IF filters = <<>> THEN None_ ELSE Filter(join_AND(conditions(filters)))

\* _create_filter is called with the map drawn at the start
CreateFilter ==
    /\ tencent.filtered = <<>>
    /\ tencent' = [tencent EXCEPT !.filtered = <<create_filter(tencent.filters)>>]
    /\ UNCHANGED <<notlib, env_pass, detection, config_api, dual_write>>

InitFilter ==
    /\ RouterInit /\ AccessInit /\ ServiceInit /\ ClientInit
    /\ env_pass = NoPass /\ detection = NoDetection /\ config_api = NoApiRequest
    /\ dual_write = NoQueries
    /\ tencent \in [connected : {FALSE}, filters : FilterMaps, filtered : {<<>>}]

NextFilter == CreateFilter

SpecFilter == InitFilter /\ [][NextFilter]_vars

\* the clause stated for one key: a quoted string, a bare number, or the bounds
\* of a range map that are present
StatedClause(key, value) ==
    IF value.type = "str" THEN <<key, "=", "\"", value.v, "\"">>
    ELSE IF value.type = "int" THEN <<key, "=", ToString(value.v)>>
    ELSE (IF "gte" \in DOMAIN value.v THEN <<key, ">=", ToString(value.v["gte"])>> ELSE <<>>)
         \o (IF {"gte", "lte"} \subseteq DOMAIN value.v THEN <<"AND">> ELSE <<>>)
         \o (IF "lte" \in DOMAIN value.v THEN <<key, "<=", ToString(value.v["lte"])>> ELSE <<>>)
RECURSIVE StatedExpression(_)
StatedExpression(items) ==
    IF items = <<>> THEN <<>>
    ELSE StatedClause(items[1].key, items[1].value)
         \o (IF Len(items) > 1 THEN <<"AND">> ELSE <<>>) \o StatedExpression(Tail(items))
\* every value is a string, a number, or a range map of gte and lte
IsStatedValue(value) ==
    \/ value.type \in {"str", "int"}
    \/ value.type = "dict" /\ DOMAIN value.v \subseteq {"gte", "lte"}
FilterBuilt == tencent.filtered # <<>> /\ tencent.filters # <<>>
StatedFilters == \A i \in DOMAIN tencent.filters : IsStatedValue(tencent.filters[i].value)
Pieces(expression) == {expression[i] : i \in DOMAIN expression}

\* C29: the filter expression has one clause per key, joined with AND: key =
\* "value" for a string, key = value for a number, key >= gte AND key <= lte for
\* a range map with each bound optional; no key is dropped.
C29_OneClausePerKey ==
    (FilterBuilt /\ StatedFilters) =>
        /\ tencent.filtered[1].cond = StatedExpression(tencent.filters)
        /\ \A i \in DOMAIN tencent.filters :
              tencent.filters[i].key \in Pieces(tencent.filtered[1].cond)

\* C29, the case that fails: a range map without a bound next to a string
C29_Witness ==
    /\ FilterBuilt
    /\ tencent.filters = <<Item("user_id", Text("alice")), Item("created_at", RangeMap({}))>>
    /\ tencent.filtered[1].cond = <<"user_id", "=", "\"", "alice", "\"">>

\* C29 for maps whose range maps have a bound: one clause per key, none dropped
HasBound(value) == value.type = "dict" => DOMAIN value.v # {}
C29_OneClausePerBoundedKey ==
    (FilterBuilt /\ StatedFilters /\ \A i \in DOMAIN tencent.filters : HasBound(tencent.filters[i].value)) =>
        /\ tencent.filtered[1].cond = StatedExpression(tencent.filters)
        /\ \A i \in DOMAIN tencent.filters :
              tencent.filters[i].key \in Pieces(tencent.filtered[1].cond)

\* C29: a range with both bounds after a number
C29_WitnessRange ==
    /\ FilterBuilt
    /\ tencent.filters = <<Item("score", Number(5)), Item("created_at", RangeMap({"gte", "lte"}))>>
    /\ tencent.filtered[1].cond =
          <<"score", "=", "5", "AND", "created_at", ">=", "1", "AND", "created_at", "<=", "9">>

\* ===================================================================
\* TencentVectorDB.create_col (mem0/vector_stores/tencent_vectordb.py 97-210)
\* ===================================================================
MaxOps == 3         \* calls on the connector in one behaviour

\* a collection of the database: the dimension and metric of its vector index,
\* and the ids of its documents
Collection(dimension, metric, docs) == [dimension |-> dimension, metric |-> metric, docs |-> docs]
NoCollection == [dimension |-> 0]
CollectionNames == {"mem0", "other"}
collection_name == "mem0"           \* self.collection_name
VectorSizes == {768, 1536}
Distances == {"cosine", "L2", "manhattan"}
DocIds == {"d1", "d2"}

\* metric_map.get(distance.lower(), MetricType.COSINE)
metric_of(distance) ==
    CASE distance = "cosine" -> "COSINE"
      [] distance = "L2" -> "L2"
      [] distance = "ip" -> "IP"
      [] OTHER -> "COSINE"

\* describe_collection(name) and collection(name) return: the collection is
\* there and the service answers; any exception counts as absence (107-114)
describe_never_finds(collections, name, answers) == FALSE
describe_finds(collections, name, answers) == answers /\ collections[name] # NoCollection

\* the call on the connector made last
Called(op, name, existed, answers, failed) ==
    [op |-> op, name |-> name, existed |-> existed, answers |-> answers, raised |-> failed]

\* create_col(name, vector_size, distance); `answers` is whether the service
\* answers describe_collection.  create_collection raises for a name the
\* database has, and the exception is raised again (208-210).
CreateCol(name, vector_size, distance, answers) ==
    LET existed == tencent.collections[name] # NoCollection
        found == describe_finds(tencent.collections, name, answers)
    IN /\ tencent.ops < MaxOps
       /\ tencent' =
             IF found
             THEN [tencent EXCEPT !.ops = @ + 1, !.bound = name,
                                  !.last = Called("create_col", name, existed, answers, FALSE)]
             ELSE IF existed
             THEN [tencent EXCEPT !.ops = @ + 1, !.create_collection_calls = @ + 1,
                                  !.last = Called("create_col", name, existed, answers, TRUE)]
             ELSE [tencent EXCEPT
                     !.ops = @ + 1, !.create_collection_calls = @ + 1, !.bound = name,
                     !.collections[name] = Collection(vector_size, metric_of(distance), {}),
                     !.last = Called("create_col", name, existed, answers, FALSE)]
       /\ UNCHANGED <<notlib, env_pass, detection, config_api, dual_write>>

\* insert([vector], [payload], [id]): upsert into the collection the connector holds
Insert(id) ==
    /\ tencent.ops < MaxOps
    /\ tencent' =
          IF tencent.collections[tencent.bound] = NoCollection
          THEN [tencent EXCEPT !.ops = @ + 1,
                               !.last = Called("insert", tencent.bound, FALSE, TRUE, TRUE)]
          ELSE [tencent EXCEPT !.ops = @ + 1,
                               !.collections[tencent.bound].docs = @ \cup {id},
                               !.last = Called("insert", tencent.bound, TRUE, TRUE, FALSE)]
    /\ UNCHANGED <<notlib, env_pass, detection, config_api, dual_write>>

\* delete_col(): drop_collection(self.collection_name)
DeleteCol ==
    LET existed == tencent.collections[collection_name] # NoCollection
    IN /\ tencent.ops < MaxOps
       /\ tencent' = [tencent EXCEPT
             !.ops = @ + 1,
             !.collections[collection_name] = NoCollection,
             !.last = Called("delete_col", collection_name, existed, TRUE, ~existed)]
       /\ UNCHANGED <<notlib, env_pass, detection, config_api, dual_write>>

\* after __init__: the collection of the connector exists, created by the
\* constructor or found as it was; another collection may exist
InitTencent ==
    /\ RouterInit /\ AccessInit /\ ServiceInit /\ ClientInit
    /\ env_pass = NoPass /\ detection = NoDetection /\ config_api = NoApiRequest
    /\ dual_write = NoQueries
    /\ \E mine \in {Collection(1536, "COSINE", {}), Collection(768, "L2", {"d1"})},
          other \in {NoCollection, Collection(768, "IP", {"d2"})} :
          tencent = [connected |-> TRUE,
                     collections |-> [n \in CollectionNames |-> IF n = collection_name THEN mine ELSE other],
                     bound |-> collection_name, create_collection_calls |-> 0, ops |-> 0,
                     last |-> Called("__init__", collection_name, TRUE, TRUE, FALSE)]

NextTencent ==
    \/ \E name \in CollectionNames, vector_size \in VectorSizes, distance \in Distances, answers \in BOOLEAN :
          CreateCol(name, vector_size, distance, answers)
    \/ \E id \in DocIds : Insert(id)
    \/ DeleteCol

SpecTencent == InitTencent /\ [][NextTencent]_vars

\* the step is a create_col call for a collection that exists, answered by the service
CreateColOfExisting ==
    /\ tencent'.ops = tencent.ops + 1
    /\ tencent'.last.op = "create_col"
    /\ tencent'.last.existed /\ tencent'.last.answers

C30_WitnessCreated ==
    /\ tencent.connected /\ tencent.last = Called("create_col", "other", FALSE, TRUE, FALSE)
    /\ tencent.collections["other"] = Collection(1536, "COSINE", {})
    /\ tencent.create_collection_calls = 1

\* ===================================================================
\* TencentVectorDB.insert / delete / get (mem0/vector_stores/tencent_vectordb.py 212-377)
\* ===================================================================
\* A document is a map from field names to values; a collection holds at most
\* one document per value of the field "id".
Vectors == {"v1", "v2"}
MetaKeys == {"data", "id", "vector"}
MetaValues(key) == CASE key = "data" -> {"x"} [] key = "id" -> DocIds [] OTHER -> {"v2"}
Payloads == UNION {{m \in [keys -> {"x", "v2"} \cup DocIds] : \A k \in keys : m[k] \in MetaValues(k)} : keys \in SUBSET MetaKeys}
Lists(S) == {<<>>} \cup {<<x>> : x \in S}

\* Document(id=idx, vector=vector)
VectorDocument(id, vector) == [k \in {"id", "vector"} |-> IF k = "id" THEN id ELSE vector]

\* setattr(doc, key, value)
setattr(doc, key, value) == [k \in DOMAIN doc \cup {key} |-> IF k = key THEN value ELSE doc[k]]

\* if metadata: for key, value in metadata.items(): setattr(doc, key, value)
RECURSIVE set_items(_, _, _)
set_items(doc, metadata, keys) ==
    IF keys = {} THEN doc
    ELSE LET key == CHOOSE k \in keys : TRUE
         IN set_items(setattr(doc, key, metadata[key]), metadata, keys \ {key})

\* the documents insert builds: zip(ids, vectors, payloads)
zip_length(ids, vectors, payloads) ==
    LET m == IF Len(ids) < Len(vectors) THEN Len(ids) ELSE Len(vectors)
    IN IF Len(payloads) < m THEN Len(payloads) ELSE m
documents_of(ids, vectors, payloads) ==
    [i \in 1..zip_length(ids, vectors, payloads) |->
        set_items(VectorDocument(ids[i], vectors[i]), payloads[i], DOMAIN payloads[i])]

\* self._collection.upsert(documents): a document replaces the one with its id
RECURSIVE upsert(_, _)
upsert(docs, documents) ==
    IF documents = <<>> THEN docs
    ELSE upsert({d \in docs : d["id"] # Head(documents)["id"]} \cup {Head(documents)}, Tail(documents))

\* self._collection.searchById([vector_id], retrieve_vector=False): results[0]
searchById(docs, vector_id) == {d \in docs : d["id"] = vector_id}

\* self._collection.delete_by_ids([vector_id])
delete_by_ids(docs, vector_id) == {d \in docs : d["id"] # vector_id}

\* OutputData(id, score, payload); a payload is a dict or None
Payload(dict) == [dict |-> dict]
NoPayload == [none |-> TRUE]
OutputData(id, score, payload) == [id |-> id, score |-> score, payload |-> payload]

\* {k: v for k, v in doc.items() if k not in ["id", "vector"]}
metadata_of(doc) == [k \in DOMAIN doc \ {"id", "vector"} |-> doc[k]]

\* get(vector_id), the service having answered
get(docs, vector_id) ==
    LET results == searchById(docs, vector_id)
    IN IF results # {}
       THEN LET doc == CHOOSE d \in results : TRUE
            IN OutputData(doc["id"], NULL, Payload(metadata_of(doc)))
       ELSE OutputData(NULL, NULL, NoPayload)

\* what the caller last did with an id: never inserted, inserted with a
\* metadata map, or deleted; `keys` is every metadata key inserted so far
NeverInserted == [status |-> "never"]
Inserted(metadata) == [status |-> "inserted", metadata |-> metadata]
DeletedById == [status |-> "deleted"]

\* the call made last on the connector
VectorCall(op, id, failed, result) == [op |-> op, id |-> id, raised |-> failed, result |-> result]

\* insert(vectors, payloads, ids); `fails` is upsert raising, which insert raises again
InsertVectors(vectors, payloads, ids, fails) ==
    LET documents == documents_of(ids, vectors, payloads)
        stored == vectors # <<>> /\ ~fails
    IN /\ tencent.ops < MaxOps
       /\ tencent' = [tencent EXCEPT
             !.ops = @ + 1,
             !.docs = IF stored THEN upsert(@, documents) ELSE @,
             !.written = IF stored
                         THEN [id \in DocIds |->
                                 IF \E i \in 1..Len(documents) : ids[i] = id
                                 THEN Inserted(payloads[CHOOSE i \in 1..Len(documents) : ids[i] = id])
                                 ELSE @[id]]
                         ELSE @,
             !.keys = IF stored THEN @ \cup UNION {DOMAIN payloads[i] : i \in 1..Len(documents)} ELSE @,
             !.last = VectorCall("insert", IF ids = <<>> THEN NULL ELSE ids[1],
                                 vectors # <<>> /\ fails, NoPayload)]
       /\ UNCHANGED <<notlib, env_pass, detection, config_api, dual_write>>

\* delete(vector_id); `fails` is delete_by_ids raising
DeleteVector(vector_id, fails) ==
    /\ tencent.ops < MaxOps
    /\ tencent' = [tencent EXCEPT
          !.ops = @ + 1,
          !.docs = IF fails THEN @ ELSE delete_by_ids(@, vector_id),
          !.written[vector_id] = IF fails THEN @ ELSE DeletedById,
          !.last = VectorCall("delete", vector_id, fails, NoPayload)]
    /\ UNCHANGED <<notlib, env_pass, detection, config_api, dual_write>>

\* get(vector_id); `fails` is searchById raising
GetVector(vector_id, fails) ==
    /\ tencent.ops < MaxOps
    /\ tencent' = [tencent EXCEPT
          !.ops = @ + 1,
          !.last = VectorCall("get", vector_id, fails,
                              IF fails THEN NoPayload ELSE get(tencent.docs, vector_id))]
    /\ UNCHANGED <<notlib, env_pass, detection, config_api, dual_write>>

\* a collection just created: no documents, nothing inserted
InitVectors ==
    /\ RouterInit /\ AccessInit /\ ServiceInit /\ ClientInit
    /\ env_pass = NoPass /\ detection = NoDetection /\ config_api = NoApiRequest
    /\ dual_write = NoQueries
    /\ tencent = [connected |-> TRUE, docs |-> {}, written |-> [id \in DocIds |-> NeverInserted],
                  keys |-> {},
                  ops |-> 0, last |-> VectorCall("__init__", NULL, FALSE, NoPayload)]

NextVectors ==
    \/ \E vectors \in Lists(Vectors), payloads \in Lists(Payloads), ids \in Lists(DocIds), fails \in BOOLEAN :
          InsertVectors(vectors, payloads, ids, fails)
    \/ \E vector_id \in DocIds, fails \in BOOLEAN : DeleteVector(vector_id, fails)
    \/ \E vector_id \in DocIds, fails \in BOOLEAN : GetVector(vector_id, fails)

SpecVectors == InitVectors /\ [][NextVectors]_vars

\* the last call is a get that returned
GetReturned == tencent.last.op = "get" /\ ~tencent.last.raised

\* C31: get(id) after insert([vector], [metadata], [id]) returns a record with
\* that id, a null score and a payload equal to the inserted metadata; get of
\* an id never inserted, or deleted, returns the record of three nulls.
C31_InsertThenGet ==
    GetReturned =>
        LET w == tencent.written[tencent.last.id]
        IN IF w.status = "inserted"
           THEN tencent.last.result = OutputData(tencent.last.id, NULL, Payload(w.metadata))
           ELSE tencent.last.result = OutputData(NULL, NULL, NoPayload)

\* C31: d1 was inserted with a metadata map that has a key "id", and get("d1")
\* returns the record of three nulls
C31_Witness ==
    /\ GetReturned /\ tencent.last.id = "d1"
    /\ tencent.written["d1"] = Inserted([k \in {"id", "data"} |-> IF k = "id" THEN "d2" ELSE "x"])
    /\ tencent.last.result = OutputData(NULL, NULL, NoPayload)

\* C31 for metadata maps without the keys "id" and "vector": the round trip holds
C31_RoundTripOfPlainMetadata ==
    (GetReturned /\ tencent.keys \cap {"id", "vector"} = {}) => C31_InsertThenGet

\* C31: the round trip of a plain metadata map
C31_WitnessRoundTrip ==
    /\ GetReturned /\ tencent.last.id = "d1"
    /\ tencent.last.result = OutputData("d1", NULL, Payload([k \in {"data"} |-> "x"]))

\* ===================================================================
\* The categorization service (openmemory/api/app/utils/categorization.py)
\* ===================================================================
\* A str is the sequence of its characters.
Chars == {" ", "A"}
MaxChars == 2       \* characters of one string
MaxLabels == 2      \* entries of one "categories" array
Strings == UNION {[1..n -> Chars] : n \in 0..MaxChars}

\* str.strip()
RECURSIVE lstrip(_)
lstrip(str) == IF str # <<>> /\ Head(str) = " " THEN lstrip(Tail(str)) ELSE str
RECURSIVE rstrip(_)
rstrip(str) == IF str # <<>> /\ str[Len(str)] = " " THEN rstrip(SubSeq(str, 1, Len(str) - 1)) ELSE str
strip(str) == rstrip(lstrip(str))

\* str.lower()
lower(str) == [i \in DOMAIN str |-> IF str[i] = "A" THEN "a" ELSE str[i]]

\* an entry of the "categories" array: a JSON string, or a value of another type
JsonString(str) == [str |-> str]
JsonNumber == [number |-> 7]
isinstance_str(cat) == "str" \in DOMAIN cat
Entries == {JsonString(str) : str \in Strings} \cup {JsonNumber}

\* response.choices[0].message.content: None or "", text that is not JSON, a
\* JSON number, or a JSON object without "categories", with a "categories"
\* that is no list, or with a "categories" array
NoContent == [json |-> "none"]
NotJson == [json |-> "invalid"]
JsonScalar == [json |-> "number"]
ObjectWithoutKey == [json |-> "object", key |-> FALSE]
ObjectWithNoList == [json |-> "object", key |-> TRUE, list |-> FALSE]
ObjectWithList(categories) == [json |-> "object", key |-> TRUE, list |-> TRUE, categories |-> categories]
Contents == {NoContent, NotJson, JsonScalar, ObjectWithoutKey, ObjectWithNoList} \cup {ObjectWithList(categories) : categories \in UNION {[1..n -> Entries] : n \in 0..MaxLabels}}

\* a call either returns a list or raises
ReturnList(categories) == [returns |-> categories]
Raise(exception) == [raises |-> exception]
raises(outcome) == "raises" \in DOMAIN outcome

\* the loop of _parse_categories_response (133-139)
RECURSIVE normalized_categories(_)
normalized_categories(categories) ==
    IF categories = <<>> THEN <<>>
    ELSE LET cat == Head(categories)
             rest == normalized_categories(Tail(categories))
         IN IF isinstance_str(cat) /\ lower(strip(cat.str)) # <<>>
            THEN <<lower(strip(cat.str))>> \o rest
            ELSE rest

\* _parse_categories_response(response_content)
parse_categories_response(response_content) ==
    CASE response_content.json = "none" -> ReturnList(<<>>)
      [] response_content.json = "invalid" -> Raise("ValueError")
      [] response_content.json = "number" -> Raise("TypeError")
      [] ~response_content.key -> ReturnList(<<>>)
      [] ~response_content.list -> ReturnList(<<>>)
      [] OTHER -> ReturnList(normalized_categories(response_content.categories))

\* what client.chat.completions.create gives: an exception, a response without
\* choices or without a message, or a message with a content
ApiError == [response |-> "error"]
NoChoices == [response |-> "no choices"]
NoMessage == [response |-> "no message"]
Message(content) == [response |-> "message", content |-> content]
NotCalled == [response |-> "not called"]
Completions == {ApiError, NoChoices, NoMessage} \cup {Message(content) : content \in Contents}

\* memory.strip() is empty
is_blank(memory) == strip(memory) = <<>>

\* the body of get_categories_for_memory (158-219), run once: whether the LLM
\* is called, and what the body returns or raises
llm_called(memory, api_key, llm_client) == ~is_blank(memory) /\ (llm_client \/ api_key)
get_categories_body(memory, api_key, llm_client, completion) ==
    IF is_blank(memory) THEN ReturnList(<<>>)
    ELSE IF ~llm_client /\ ~api_key THEN Raise("ValueError")
    ELSE CASE completion = ApiError -> Raise("Exception")
           [] completion = NoChoices -> ReturnList(<<>>)
           [] completion = NoMessage -> ReturnList(<<>>)
           [] OTHER -> parse_categories_response(completion.content)

\* @retry(stop=stop_after_attempt(3), wait=wait_exponential(multiplier=1, min=4, max=15))
STOP_AFTER_ATTEMPT == 3
WAIT_MULTIPLIER == 1
WAIT_MIN == 4
WAIT_MAX == 15
stop_after_more_attempts(attempt_number) == attempt_number > STOP_AFTER_ATTEMPT
stop_after_attempt(attempt_number) == attempt_number >= STOP_AFTER_ATTEMPT
wait_exponential(attempt_number) ==
    LET exp == WAIT_MULTIPLIER * 2 ^ (attempt_number - 1)
        capped == IF exp < WAIT_MAX THEN exp ELSE WAIT_MAX
    IN IF capped < WAIT_MIN THEN WAIT_MIN ELSE capped

\* one attempt of the retrying call: the body runs; a return ends the call, an
\* exception ends it with RetryError when stop says so and otherwise starts
\* the wait before the next attempt
Attempt(completion) ==
    LET c == categorization
        attempt_number == c.attempt_number + 1
        called == llm_called(c.memory, c.api_key, c.llm_client)
        outcome == get_categories_body(c.memory, c.api_key, c.llm_client, completion)
    IN /\ c.pc = "attempt"
       /\ called <=> completion # NotCalled
       /\ categorization' = [c EXCEPT
             !.attempt_number = attempt_number,
             !.llm_calls = IF called THEN @ + 1 ELSE @,
             !.llm_client = @ \/ (~is_blank(c.memory) /\ c.api_key),
             !.completion = completion,
             !.failed = IF raises(outcome) THEN @ + 1 ELSE @,
             !.slept = IF raises(outcome) /\ ~stop_after_attempt(attempt_number)
                       THEN Append(@, wait_exponential(attempt_number)) ELSE @,
             !.result = IF ~raises(outcome) THEN outcome
                        ELSE IF stop_after_attempt(attempt_number) THEN Raise("RetryError")
                        ELSE @,
             !.pc = IF ~raises(outcome) THEN "returned"
                    ELSE IF stop_after_attempt(attempt_number) THEN "raised"
                    ELSE "sleeping"]
       /\ UNCHANGED <<notservices, scoped_session>>

\* the wait is over
Sleep ==
    /\ categorization.pc = "sleeping"
    /\ categorization' = [categorization EXCEPT !.pc = "attempt"]
    /\ UNCHANGED <<notservices, scoped_session>>

\* get_categories_for_memory(memory) is called; the API key is set or not, and
\* the client is not built yet
InitCategorize ==
    /\ RouterInit /\ AccessInit /\ ClientInit
    /\ env_pass = NoPass /\ detection = NoDetection /\ config_api = NoApiRequest
    /\ dual_write = NoQueries /\ tencent = NoConnector /\ scoped_session = NoScope
    /\ \E memory \in Strings, api_key \in BOOLEAN :
          categorization = [invoked |-> TRUE, memory |-> memory, api_key |-> api_key,
                            llm_client |-> FALSE, attempt_number |-> 0, llm_calls |-> 0,
                            failed |-> 0, slept |-> <<>>, completion |-> NotCalled,
                            result |-> ReturnList(<<>>), pc |-> "attempt"]

NextCategorize ==
    \/ \E completion \in Completions \cup {NotCalled} : Attempt(completion)
    \/ Sleep

SpecCategorize == InitCategorize /\ [][NextCategorize]_vars

\* C32: one invocation makes at most 3 attempts, and no more LLM calls than
\* attempts; every attempt but the one that returns has failed, so it retries
\* only after a failure and stops at the first attempt that returns; it raises
\* exactly when the third attempt has failed; for empty or whitespace-only
\* input it returns the empty list at the first attempt with no LLM call.
C32_AtMostThreeAttempts ==
    LET c == categorization
    IN /\ c.attempt_number <= 3 /\ c.llm_calls <= c.attempt_number
       /\ c.attempt_number = c.failed + (IF c.pc = "returned" THEN 1 ELSE 0)
       /\ c.pc = "raised" <=> c.failed = 3
       /\ c.pc = "raised" => raises(c.result)
       /\ is_blank(c.memory) =>
             /\ c.llm_calls = 0 /\ c.failed = 0 /\ c.pc # "raised"
             /\ c.pc = "returned" => c.result = ReturnList(<<>>)

\* C32: the third attempt failed after two waits of 4 seconds, and the call raised
C32_Witness ==
    /\ categorization.pc = "raised" /\ categorization.llm_calls = 3
    /\ categorization.slept = <<4, 4>> /\ categorization.completion = ApiError

\* C32: whitespace-only input returned the empty list without an LLM call
C32_WitnessBlank ==
    /\ categorization.pc = "returned" /\ categorization.memory = <<" ", " ">>
    /\ categorization.llm_calls = 0 /\ categorization.result = ReturnList(<<>>)

\* C32: a second attempt returned labels after a first that failed
C32_WitnessRetried ==
    /\ categorization.pc = "returned" /\ categorization.attempt_number = 2
    /\ categorization.failed = 1 /\ categorization.result = ReturnList(<<<<"a">>>>)

\* the call returned what it parsed from a "categories" array
ParsedAnArray ==
    /\ categorization.pc = "returned"
    /\ categorization.completion.response = "message"
    /\ categorization.completion.content.json = "object"
    /\ categorization.completion.content.key /\ categorization.completion.content.list

\* every label is trimmed, lower-cased and not empty
Normalized(labels) ==
    \A i \in DOMAIN labels : labels[i] # <<>> /\ strip(labels[i]) = labels[i] /\ lower(labels[i]) = labels[i]

\* C33: for well-formed LLM JSON output the labels returned are trimmed and
\* lower-cased, none is empty, and no two of them are equal.
C33_LabelsAreDeduplicated ==
    ParsedAnArray =>
        LET labels == categorization.result.returns
        IN /\ Normalized(labels)
           /\ \A i, j \in DOMAIN labels : labels[i] = labels[j] => i = j

\* C33: the array ["A", " A"] gave the labels ["a", "a"]
C33_Witness ==
    /\ ParsedAnArray
    /\ categorization.completion.content.categories = <<JsonString(<<"A">>), JsonString(<<" ", "A">>)>>
    /\ categorization.result = ReturnList(<<<<"a">>, <<"a">>>>)

\* the labels of the string entries that are not blank, in the order of the array
RECURSIVE LabelsOf(_)
LabelsOf(categories) ==
    IF categories = <<>> THEN <<>>
    ELSE IF isinstance_str(Head(categories)) /\ ~is_blank(Head(categories).str)
         THEN <<lower(strip(Head(categories).str))>> \o LabelsOf(Tail(categories))
         ELSE LabelsOf(Tail(categories))

\* C33 without the de-duplication: the labels are the trimmed, lower-cased
\* string entries that are not blank, one per entry, in order
C33_LabelsAreNormalized ==
    ParsedAnArray =>
        /\ Normalized(categorization.result.returns)
        /\ categorization.result.returns = LabelsOf(categorization.completion.content.categories)

\* C33: blank and non-string entries are dropped
C33_WitnessDropped ==
    /\ ParsedAnArray
    /\ categorization.completion.content.categories = <<JsonNumber, JsonString(<<" ", "A">>)>>
    /\ categorization.result = ReturnList(<<<<"a">>>>)

\* ===================================================================
\* The categorization trigger (openmemory/api/app/models.py 247-357)
\* ===================================================================
\* after_memory_insert and after_memory_update have the same body.  The flush
\* of the triggering write calls the handler; the handler's session has a
\* transaction of its own: `pending` is what it wrote and has not committed.
LabelNames == {"work", "home"}
LabelLists == UNION {[1..n -> LabelNames] : n \in 0..MaxLabels}
TriggerEvents == {"after_insert", "after_update"}

\* except Exception as e (303, 336): the handler catches what its body raises
except_nothing(exception) == FALSE
except_Exception(exception) == TRUE

\* the exception reaches the handler's except clause, or leaves the handler
\* through its finally clause
handler_raised(c, exception) ==
    IF except_Exception(exception)
    THEN [c EXCEPT !.pc = "handler_except", !.failed = TRUE]
    ELSE [c EXCEPT !.pc = "close", !.failed = TRUE, !.propagated = TRUE]

\* db = SessionLocal(); memory = db.query(Memory).filter(...).first()
QueryMemory(fails) ==
    LET c == categorization
    IN /\ c.pc = "query"
       /\ categorization' =
             IF fails THEN handler_raised(c, "Exception")
             ELSE IF ~c.row THEN [c EXCEPT !.pc = "close"]
             ELSE [c EXCEPT !.pc = "get_categories"]
       /\ UNCHANGED <<notservices, scoped_session>>

\* categorize_memory: categories = get_categories_for_memory(memory.content)
GetCategories(outcome) ==
    LET c == categorization
    IN /\ c.pc = "get_categories"
       /\ categorization' =
             IF raises(outcome) THEN [c EXCEPT !.pc = "rollback", !.failed = TRUE]
             ELSE [c EXCEPT !.pc = "loop", !.labels = outcome.returns]
       /\ UNCHANGED <<notservices, scoped_session>>

\* categorize_memory: one pass of `for category_name in categories` (254-279).
\* fails_at is the statement that raises: 1 the Category query, 2 the flush of
\* a new Category, 3 the query for the association, 4 its insert; 0: none.
ForCategoryName(fails_at) ==
    LET c == categorization
        category_name == Head(c.labels)
        category == category_name \in c.categories \cup c.pending_categories
        existing == category_name \in c.associations \cup c.pending_associations
    IN /\ c.pc = "loop" /\ c.labels # <<>>
       /\ fails_at = 2 => ~category
       /\ fails_at = 4 => ~existing
       /\ categorization' = [c EXCEPT
             !.pending_categories =
                 IF ~category /\ fails_at \notin {1, 2} THEN @ \cup {category_name} ELSE @,
             !.pending_associations =
                 IF ~existing /\ fails_at = 0 THEN @ \cup {category_name} ELSE @,
             !.flushed = @ \/ (~category /\ fails_at \notin {1, 2}),
             !.labels = IF fails_at = 0 THEN Tail(@) ELSE @,
             !.failed = @ \/ fails_at # 0,
             !.pc = IF fails_at = 0 THEN "loop" ELSE "rollback"]
       /\ UNCHANGED <<notservices, scoped_session>>

\* categorize_memory: db.commit()
Commit(fails) ==
    LET c == categorization
    IN /\ c.pc = "loop" /\ c.labels = <<>>
       /\ categorization' =
             IF fails THEN [c EXCEPT !.pc = "rollback", !.failed = TRUE]
             ELSE [c EXCEPT !.pc = "close",
                            !.categories = @ \cup c.pending_categories,
                            !.associations = @ \cup c.pending_associations,
                            !.pending_categories = {}, !.pending_associations = {}]
       /\ UNCHANGED <<notservices, scoped_session>>

\* categorize_memory: except Exception: db.rollback(); logging.error(...).
\* A rollback that raises leaves categorize_memory for the handler.
Rollback(fails) ==
    LET c == categorization
    IN /\ c.pc = "rollback"
       /\ categorization' =
             IF fails THEN handler_raised([c EXCEPT !.rollbacks = @ + 1], "Exception")
             ELSE [c EXCEPT !.pc = "close", !.rollbacks = @ + 1,
                            !.pending_categories = {}, !.pending_associations = {}]
       /\ UNCHANGED <<notservices, scoped_session>>

\* the handler's except clause: logger.error(...); try: db.rollback() except: pass
HandlerExcept(fails) ==
    LET c == categorization
    IN /\ c.pc = "handler_except"
       /\ categorization' =
             IF fails THEN [c EXCEPT !.pc = "close", !.rollbacks = @ + 1]
             ELSE [c EXCEPT !.pc = "close", !.rollbacks = @ + 1,
                            !.pending_categories = {}, !.pending_associations = {}]
       /\ UNCHANGED <<notservices, scoped_session>>

\* the handler's finally clause: try: db.close() except: pass.  What the
\* transaction had not committed is gone with its connection.
Close(fails) ==
    LET c == categorization
    IN /\ c.pc = "close"
       /\ categorization' = [c EXCEPT !.pc = "done", !.closes = @ + 1, !.closed = ~fails,
                                      !.pending_categories = {}, !.pending_associations = {}]
       /\ UNCHANGED <<notservices, scoped_session>>

\* the triggering write after the handler: an exception the handler let out
\* ends the flush; otherwise the write commits, or fails for a reason of its own
WriteCommit ==
    LET c == categorization
    IN /\ c.pc = "done" /\ c.write = "flushing"
       /\ categorization' = [c EXCEPT !.write = IF ~c.propagated /\ c.commit_ok THEN "committed" ELSE "failed"]
       /\ UNCHANGED <<notservices, scoped_session>>

\* a flush has inserted or updated a Memory row and calls the handler; the
\* row is visible to another session or not
InitTrigger ==
    /\ RouterInit /\ AccessInit /\ ClientInit
    /\ env_pass = NoPass /\ detection = NoDetection /\ config_api = NoApiRequest
    /\ dual_write = NoQueries /\ tencent = NoConnector /\ scoped_session = NoScope
    /\ \E triggered \in TriggerEvents, row \in BOOLEAN, commit_ok \in BOOLEAN, categories \in SUBSET LabelNames :
       \E associations \in SUBSET categories :
          categorization = [invoked |-> TRUE, event |-> triggered, row |-> row, pc |-> "query",
                            labels |-> <<>>, categories |-> categories, associations |-> associations,
                            before |-> [categories |-> categories, associations |-> associations],
                            pending_categories |-> {}, pending_associations |-> {}, flushed |-> FALSE,
                            failed |-> FALSE, propagated |-> FALSE, rollbacks |-> 0,
                            closes |-> 0, closed |-> FALSE,
                            write |-> "flushing", commit_ok |-> commit_ok]

NextTrigger ==
    \/ \E fails \in BOOLEAN : QueryMemory(fails)
    \/ \E outcome \in {ReturnList(labels) : labels \in LabelLists} \cup {Raise("RetryError")} : GetCategories(outcome)
    \/ \E fails_at \in 0..4 : ForCategoryName(fails_at)
    \/ \E fails \in BOOLEAN : Commit(fails)
    \/ \E fails \in BOOLEAN : Rollback(fails)
    \/ \E fails \in BOOLEAN : HandlerExcept(fails)
    \/ \E fails \in BOOLEAN : Close(fails)
    \/ WriteCommit

SpecTrigger == InitTrigger /\ [][NextTrigger]_vars

\* C34: a failure of the categorization flow never leaves the handler; the
\* triggering write commits exactly when its own commit succeeds, whether the
\* categorization failed or not; a failed categorization leaves the Category
\* and association rows as they were; db.close() is called exactly once on
\* every path, and not before the handler ends.
C34_TriggerFailureIsIsolated ==
    LET c == categorization
    IN /\ ~c.propagated
       /\ c.write # "flushing" => (c.write = "committed" <=> c.commit_ok)
       /\ c.failed => c.categories = c.before.categories /\ c.associations = c.before.associations
       /\ c.closes = (IF c.pc = "done" THEN 1 ELSE 0)
       /\ c.pc = "done" => c.pending_categories = {} /\ c.pending_associations = {}

\* C34: the flow failed after a new Category was flushed, the rollback in
\* categorize_memory raised as well, the session was closed, no row was
\* added, and the triggering write committed
C34_Witness ==
    /\ categorization.write = "committed" /\ categorization.failed /\ categorization.flushed
    /\ categorization.rollbacks = 2 /\ categorization.closes = 1 /\ categorization.closed
    /\ categorization.categories = {} /\ categorization.associations = {}

\* C34: a categorization that succeeded committed its rows
C34_WitnessCategorized ==
    /\ categorization.write = "committed" /\ ~categorization.failed
    /\ categorization.before.categories = {"work"} /\ categorization.before.associations = {}
    /\ categorization.categories = {"work", "home"} /\ categorization.associations = {"work", "home"}

\* ===================================================================
\* TencentVectorDB.create_col: the wait for the new collection (tencent_vectordb.py 185-207)
\* ===================================================================
max_wait_time == 60
wait_interval == 2

\* describe_collection(name) in the loop: it raises, or returns an object
\* without a status attribute, or with the status NORMAL or another status
PollOutcomes == {"raises", "no status", "NORMAL", "CREATING"}

\* while elapsed_time < max_wait_time
keeps_waiting_at_the_limit(elapsed_time) == elapsed_time <= max_wait_time
keeps_waiting(elapsed_time) == elapsed_time < max_wait_time

\* the two break conditions (191-198)
is_ready(collection_info) == collection_info \in {"NORMAL", "no status"}

\* one pass of the loop: describe_collection, then break, or sleep and count
Poll(collection_info) ==
    /\ tencent.pc = "wait" /\ keeps_waiting(tencent.elapsed_time)
    /\ tencent' = [tencent EXCEPT
          !.polls = @ + 1,
          !.last_poll = collection_info,
          !.elapsed_time = IF is_ready(collection_info) THEN @ ELSE @ + wait_interval,
          !.pc = IF is_ready(collection_info) THEN "fetch" ELSE "wait"]
    /\ UNCHANGED <<notlib, env_pass, detection, config_api, dual_write>>

\* the loop condition is false: the loop is left without a break
TimedOut ==
    /\ tencent.pc = "wait" /\ ~keeps_waiting(tencent.elapsed_time)
    /\ tencent' = [tencent EXCEPT !.pc = "fetch"]
    /\ UNCHANGED <<notlib, env_pass, detection, config_api, dual_write>>

\* self._collection = self._database.collection(name); an exception is logged
\* and raised again (208-210)
FetchHandle(fails) ==
    /\ tencent.pc = "fetch"
    /\ tencent' = [tencent EXCEPT !.pc = "done", !.fetches = @ + 1, !.raised = fails]
    /\ UNCHANGED <<notlib, env_pass, detection, config_api, dual_write>>

\* create_collection has returned (176-183)
InitWait ==
    /\ RouterInit /\ AccessInit /\ ServiceInit /\ ClientInit
    /\ env_pass = NoPass /\ detection = NoDetection /\ config_api = NoApiRequest
    /\ dual_write = NoQueries
    /\ \E name \in CollectionNames :
          tencent = [connected |-> TRUE, name |-> name, pc |-> "wait", elapsed_time |-> 0,
                     polls |-> 0, last_poll |-> "none", fetches |-> 0, raised |-> FALSE]

NextWait ==
    \/ \E collection_info \in PollOutcomes : Poll(collection_info)
    \/ TimedOut
    \/ \E fails \in BOOLEAN : FetchHandle(fails)

SpecWait == InitWait /\ [][NextWait]_vars

\* create_col runs on: a step that can be taken is taken
SpecWaitLive == SpecWait /\ WF_vars(NextWait)

\* at most 30 polls, 2 seconds slept after each poll that did not end the
\* loop and never more than 60; the loop is left early exactly at a poll that
\* reports NORMAL or has no status; the handle is fetched once, after the loop
WaitIsBounded ==
    /\ tencent.polls <= 30 /\ tencent.elapsed_time <= 60
    /\ tencent.elapsed_time = 2 * (tencent.polls - (IF is_ready(tencent.last_poll) THEN 1 ELSE 0))
    /\ tencent.pc # "wait" => (is_ready(tencent.last_poll) \/ tencent.polls = 30)
    /\ (tencent.pc = "wait" /\ tencent.polls > 0) => tencent.last_poll \in {"raises", "CREATING"}
    /\ tencent.fetches = (IF tencent.pc = "done" THEN 1 ELSE 0)

\* C35: the readiness wait always terminates: it polls describe_collection at
\* most 30 times, 2 seconds apart and 60 seconds in all, stops at the first
\* poll that reports NORMAL or succeeds without a status, and in every case,
\* also when every poll fails or none reports NORMAL, it goes on to fetch the
\* collection handle.
C35_WaitTerminates == []WaitIsBounded /\ <>(tencent.pc = "done" /\ tencent.fetches = 1)

\* C35: thirty polls failed or reported another status, 60 seconds were
\* slept, and the handle was fetched
C35_Witness ==
    /\ tencent.pc = "done" /\ tencent.polls = 30 /\ tencent.elapsed_time = 60
    /\ tencent.last_poll = "raises" /\ tencent.fetches = 1

\* C35: the third poll had no status attribute and ended the wait after 4 seconds
C35_WitnessEarly ==
    /\ tencent.pc = "done" /\ tencent.polls = 3 /\ tencent.elapsed_time = 4
    /\ tencent.last_poll = "no status" /\ tencent.fetches = 1

\* ===================================================================
\* get_db (openmemory/api/app/database.py 62-82)
\* ===================================================================
MaxUnits == 2       \* units of work (requests) in one behaviour
Units == 1..MaxUnits

\* how the unit of work that holds the session ends: it returns, or an
\* exception is thrown into the generator at the yield: an Exception, or a
\* BaseException that is no Exception (GeneratorExit, CancelledError, KeyboardInterrupt)
UnitOutcomes == {"returns", "Exception", "BaseException"}

\* except Exception (77)
except_BaseException(outcome) == outcome # "returns"
except_Exception_at_yield(outcome) == outcome = "Exception"

NoUnit == [pc |-> "idle", session |-> 0, outcome |-> "none", rollbacks |-> 0, closes |-> 0,
           rollback_failed |-> FALSE, close_failed |-> FALSE, leaves |-> "nothing"]

\* db = SessionLocal(); yield db
GetDb(u) ==
    /\ scoped_session.units[u].pc = "idle"
    /\ scoped_session' = [scoped_session EXCEPT
          !.opened = @ + 1,
          !.units[u].pc = "yielded",
          !.units[u].session = scoped_session.opened + 1]
    /\ UNCHANGED <<notservices, categorization>>

\* the unit of work ends: control comes back at the yield
UnitOfWork(u, outcome) ==
    /\ scoped_session.units[u].pc = "yielded"
    /\ scoped_session' = [scoped_session EXCEPT
          !.units[u].outcome = outcome,
          !.units[u].leaves = IF outcome = "returns" THEN "nothing" ELSE "the unit's error",
          !.units[u].pc = IF except_Exception_at_yield(outcome) THEN "except" ELSE "finally"]
    /\ UNCHANGED <<notservices, categorization>>

\* except Exception: db.rollback(); raise.  A rollback that raises is what
\* leaves the clause, and `raise` is not reached.
ExceptRollback(u, fails) ==
    /\ scoped_session.units[u].pc = "except"
    /\ scoped_session' = [scoped_session EXCEPT
          !.units[u].rollbacks = @ + 1,
          !.units[u].rollback_failed = fails,
          !.units[u].leaves = IF fails THEN "rollback's error" ELSE @,
          !.units[u].pc = "finally"]
    /\ UNCHANGED <<notservices, categorization>>

\* finally: db.close().  A close that raises replaces what was leaving.
FinallyClose(u, fails) ==
    /\ scoped_session.units[u].pc = "finally"
    /\ scoped_session' = [scoped_session EXCEPT
          !.units[u].closes = @ + 1,
          !.units[u].close_failed = fails,
          !.units[u].leaves = IF fails THEN "close's error" ELSE @,
          !.units[u].pc = "done"]
    /\ UNCHANGED <<notservices, categorization>>

\* no request has asked for a session
InitScope ==
    /\ RouterInit /\ AccessInit /\ ClientInit
    /\ env_pass = NoPass /\ detection = NoDetection /\ config_api = NoApiRequest
    /\ dual_write = NoQueries /\ tencent = NoConnector /\ categorization = NoCategorization
    /\ scoped_session = [opened |-> 0, units |-> [u \in Units |-> NoUnit]]

NextScope ==
    \E u \in Units :
        \/ GetDb(u)
        \/ \E outcome \in UnitOutcomes : UnitOfWork(u, outcome)
        \/ \E fails \in BOOLEAN : ExceptRollback(u, fails)
        \/ \E fails \in BOOLEAN : FinallyClose(u, fails)

SpecScope == InitScope /\ [][NextScope]_vars

\* every unit of work has a session no other unit has, and close is called
\* once when the generator is left, not before
OwnSessionClosedOnce ==
    /\ \A u, v \in Units :
          (u # v /\ scoped_session.units[u].pc # "idle" /\ scoped_session.units[v].pc # "idle") =>
              scoped_session.units[u].session # scoped_session.units[v].session
    /\ \A u \in Units : scoped_session.units[u].closes = (IF scoped_session.units[u].pc = "done" THEN 1 ELSE 0)

\* C36 as stated: each unit of work has its own session, closed exactly once
\* on every exit path; the session is rolled back if and only if the unit of
\* work raised, and then the error of the unit is raised again.
C36_RollsBackIffRaised ==
    /\ OwnSessionClosedOnce
    /\ \A u \in Units :
          LET unit == scoped_session.units[u]
          IN unit.pc = "done" =>
                /\ unit.rollbacks = 1 <=> unit.outcome # "returns"
                /\ unit.outcome # "returns" => unit.leaves = "the unit's error"

\* C36, amended: each unit of work has its own session and close is called
\* exactly once on every exit path; rollback is called, once, if and only if
\* the unit raised an Exception (not for a BaseException such as
\* GeneratorExit or CancelledError); the unit's error leaves get_db unless the
\* rollback or the close raised, whose error then leaves instead; nothing is
\* raised when the unit returned and the close succeeded.
C36_RollsBackOnException ==
    /\ OwnSessionClosedOnce
    /\ \A u \in Units :
          LET unit == scoped_session.units[u]
          IN /\ unit.rollbacks = (IF unit.outcome = "Exception" /\ unit.pc \in {"finally", "done"} THEN 1 ELSE 0)
             /\ unit.pc = "done" =>
                   unit.leaves = (IF unit.close_failed THEN "close's error"
                                  ELSE IF unit.rollback_failed THEN "rollback's error"
                                  ELSE IF unit.outcome = "returns" THEN "nothing"
                                  ELSE "the unit's error")

\* C36: two units of work, one that raised and was rolled back and closed,
\* one that returned and was closed without a rollback
C36_Witness ==
    /\ scoped_session.units[1] = [NoUnit EXCEPT !.pc = "done", !.session = 1, !.outcome = "Exception",
                                                !.rollbacks = 1, !.closes = 1, !.leaves = "the unit's error"]
    /\ scoped_session.units[2] = [NoUnit EXCEPT !.pc = "done", !.session = 2, !.outcome = "returns",
                                                !.closes = 1]

\* C36: a BaseException ended the unit of work: closed, not rolled back
C36_WitnessNotRolledBack ==
    /\ scoped_session.units[1].pc = "done" /\ scoped_session.units[1].outcome = "BaseException"
    /\ scoped_session.units[1].rollbacks = 0 /\ scoped_session.units[1].closes = 1
    /\ scoped_session.units[1].leaves = "the unit's error"

\* ===================================================================
\* The history log of a memory (routers/memories.py 43-127, models.py 203-221)
\* ===================================================================
\* the positions in the history log, in commit order, of the rows of memory m
HistoryRows(m) == {i \in DOMAIN history : history[i].memory_id = m}
Latest(rows) == CHOOSE i \in rows : \A j \in rows : j <= i

\* the state the memory was in before the row at position i was written
\* according to the log: the new_state of the row before, or active, the state
\* a Memory is created in, for the first row
StateBefore(m, i) ==
    LET earlier == {j \in HistoryRows(m) : j < i}
    IN IF earlier = {} THEN "active" ELSE history[Latest(earlier)].new_state

\* the new_state of the last row of every memory is the memory's state
LastRowIsTheState ==
    \A m \in MemIds :
        (HistoryRows(m) # {} /\ memories[m] # NoRow) =>
            history[Latest(HistoryRows(m))].new_state = memories[m].state

\* C37: the history rows of every memory, in commit order, form a chain: the
\* old_state of each row is the new_state of the row before it for that memory
\* (the memory's initial state for the first row), and the new_state of the
\* last row is the memory's current state.
C37_HistoryIsAChain ==
    /\ \A m \in MemIds : \A i \in HistoryRows(m) : history[i].old_state = StateBefore(m, i)
    /\ LastRowIsTheState

\* C37: a memory was archived by the endpoint and then deleted by a DELETE
\* event of a create request, whose row says active -> deleted
C37_Witness ==
    \E m \in MemIds, i \in DOMAIN history :
        /\ i > 1 /\ history[i].memory_id = m /\ history[i - 1].memory_id = m
        /\ history[i - 1].new_state = "archived"
        /\ history[i].old_state = "active" /\ history[i].new_state = "deleted"
        /\ memories[m].state = "deleted"

\* C37, the half that holds: the last row of a memory has its current state
\* as new_state
C37_LastRowIsCurrentState == LastRowIsTheState

\* ===================================================================
\* Batch lifecycle requests that meet a missing id
\* ===================================================================

\* a step of DELETE /memories/, of actions/archive or of actions/pause with a
\* memory-id list, by a user that has a row, answered 404: get_memory_or_404
\* raised for one of the ids
BatchAnswers404(memory_ids) ==
    /\ last'.status = "404"
    /\ \/ \E u \in {"u1", "u2"} : u \in users /\ DeleteMemories(memory_ids, u)
       \/ \E u \in {"u1", "u2"} : ArchiveMemories(memory_ids, u)
       \/ \E req \in PauseRequests :
             /\ req.user_id \in users /\ pause_mode(req) = "ids"
             /\ req.memory_ids = memory_ids /\ PauseMemories(req)

\* C38: a batch lifecycle request (DELETE /memories/, archive, pause by id
\* list) that fails with 404 because one of its ids does not exist leaves the
\* state of every memory it names, and the history log, unchanged.
C38_FailedBatchChangesNothing ==
    [][\A memory_ids \in IdLists :
          BatchAnswers404(memory_ids) =>
              /\ \A m \in Range(memory_ids) :
                    (memories[m] # NoRow) => memories'[m].state = memories[m].state
              /\ history' = history]_vars

\* C38: a pause request named an existing memory and then a missing one; it
\* was answered 404, the first memory is paused and the last history row is
\* the one the request wrote for it
C38_Witness ==
    LET ids == last.pause.memory_ids
    IN  /\ last.op = "pause" /\ last.status = "404" /\ last.user \in users
        /\ pause_mode(last.pause) = "ids" /\ last.pause.state = NULL
        /\ Len(ids) = 2
        /\ memories[ids[1]] # NoRow /\ memories[ids[2]] = NoRow
        /\ memories[ids[1]].state = "paused"
        /\ history # <<>>
        /\ Last(history).memory_id = ids[1] /\ Last(history).new_state = "paused"
        /\ Last(history).changed_by = last.user

\* ===================================================================
\* The order of the AccessControl rows
\* ===================================================================

\* the tables that hold the same rows as table in another order of return
Reorderings(table) ==
    {[i \in DOMAIN table |-> table[p[i]]] :
        p \in {q \in [DOMAIN table -> DOMAIN table] :
                 \A i, j \in DOMAIN table : q[i] = q[j] => i = j}}

\* what the last call returned
ReturnedIds == [unrestricted |-> accessible.unrestricted, ids |-> accessible.ids]

\* every order of the rows gives what the last call returned
SameInEveryOrder ==
    \A table \in Reorderings(access_controls) :
        get_accessible_memory_ids(table, accessible.app_id) = ReturnedIds

\* C39: the result of get_accessible_memory_ids for an app depends only on the
\* set of its AccessControl rules: two rule sequences that are permutations of
\* each other give the same result.
C39_OrderIndependent == accessible.app_id # NoApp => SameInEveryOrder

\* C39: the app of the call has an allow rule and a deny rule with null
\* object_id; the call returned None, and the same rows in another order give
\* the empty set
C39_Witness ==
    /\ accessible.app_id # NoApp /\ allow_all /\ deny_all
    /\ ReturnedIds = None
    /\ \E table \in Reorderings(access_controls) :
          get_accessible_memory_ids(table, accessible.app_id) = IdSet({})

\* C39 for the apps that do not have both null-object rules: the order of the
\* rows does not matter
C39_OrderIndependentWithoutConflict ==
    (accessible.app_id # NoApp /\ ~(allow_all /\ deny_all)) => SameInEveryOrder

\* C39 without the conflict: the rows of the app are a specific allow, a
\* specific deny of the same memory and a deny of every memory, and the call
\* returned the empty set
C39_WitnessWithoutConflict ==
    /\ accessible.app_id # NoApp /\ deny_all /\ ~allow_all
    /\ specifically("allow") # {} /\ specifically("deny") # {}
    /\ Len(access_controls) = MaxRules
    /\ ReturnedIds = IdSet({})

====
